---- MODULE Spec2Model ----
(***************************************************************************)
(* PlsInteractBot: ranking engine (commons.get_ranking), identity resolver *)
(* with negative cache (commons.get_users) and fan-out broadcaster         *)
(* (broadcaster.lambda_handler), modelled as state machines over the       *)
(* external stores (DynamoDB tables, Twitch directory, WebSocket peers).   *)
(*                                                                         *)
(* Time is counted in days: one unit of `now` is one day, so the cache     *)
(* expiry of one day is 1 and the window of thirty days is 30.             *)
(***************************************************************************)
EXTENDS Integers, Sequences, FiniteSets, TLC

\* ---------------------------------------------------------------- bounds
\* participant ids a direct call of get_users may be given
UserIds == {"u1", "u2", "u3"}
\* longest id list given to a direct call of get_users
MaxIds == 2
\* number of days the clock may advance
MaxTicks == 2
\* most events in an event store drawn from arbitrary events
MaxEvents == 3
\* most stored items a scan call evaluates before it returns a page
MaxPage == 2
\* most events added around the one-event-per-participant stores
MaxExtra == 1
\* connection ids of the registry
ConnectionIds == {"c1", "c2", "c3", "c4"}
\* most items the registry returns in one page of a scan
MaxRegistryPage == 3
\* the most events the store of the processor holds
MaxStored == 2

\* ------------------------------------------------------ program constants
\* datetime.timedelta(days=1), in days
OneDay == 1
\* THIRTY_DAYS_IN_MS, in days
THIRTY_DAYS_IN_MS == 30
\* most_common(10)
TopK == 10

None == "None"

VARIABLES
    rs,           \* concurrent invocations of commons.get_users, step by step
    rt,           \* the last invocation of router.lambda_handler
    wh,           \* the last invocation of call_back_twitch.lambda_handler
    now,          \* wall clock (time.time(), datetime.datetime.now())
    environ,      \* os.environ: TWITCH_CLIENT_ID, TWITCH_OAUTH_TOKEN
    users,        \* DynamoDB table "users": the identity cache, a set of items
    twitch,       \* the Twitch directory: the ids that exist there
    gu,           \* the last invocation of commons.get_users, with its calls
    comments,     \* DynamoDB table "comments": the event store, in scan order
    gr,           \* the running invocation of commons.get_ranking
    connections,  \* DynamoDB table "web_socket_sonnections": the registry
    bc,           \* the running invocation of broadcaster.lambda_handler
    rankings,     \* DynamoDB table "rankings": the stored snapshots
    rp,           \* per execution environment: the running invocation of
                  \* rankings_processor.lambda_handler
    apig_management  \* per execution environment: the module global of
                  \* rankings_processor that caches the transport client

vars == <<now, environ, users, twitch, gu, comments, gr, connections, bc,
          rankings, rp, apig_management, wh, rt, rs>>

\* ------------------------------------------------------------ sequences
Range(s) == {s[i] : i \in 1..Len(s)}

HasDuplicates(s) == \E i, j \in 1..Len(s) : i # j /\ s[i] = s[j]

SeqsUpTo(S, n) == UNION {[1..k -> S] : k \in 0..n}

\* ---------------------------------------------------------- commons.User
User(id, login, profile_image_url) ==
    [id |-> id, login |-> login, profile_image_url |-> profile_image_url]

\* what the directory answers for an id that exists
TwitchUserData(user_id) ==
    [id |-> user_id, login |-> <<"login", user_id>>,
     profile_image_url |-> <<"img", user_id>>]

\* ------------------------------------------------ the "users" table items
\* DynamoDB time-to-live: an item is expired once the clock passed expireAt
Expired(item, t) == item.expireAt < t

\* the marker of a not-found record
IsErrorMarked(item) ==
    "error_twitch_api" \in DOMAIN item /\ item.error_twitch_api = "f"

\* dynamodb.batch_get_item: the stored items of the requested keys
BatchGetItem(table, keys) == {item \in table : item.user_id \in Range(keys)}

\* one put of dynamodb: replaces the item of the same key
PutItemKeepsOld(table, item) == table \cup {item}
PutItem(table, item) ==
    {i \in table : i.user_id # item.user_id} \cup {item}

RECURSIVE BatchWriteItem(_, _)
BatchWriteItem(table, requests) ==
    IF requests = <<>> THEN table
    ELSE BatchWriteItem(PutItem(table, Head(requests).PutRequest.Item),
                        Tail(requests))

\* ----------------------------------------------------- commons.get_users
\* first loop over the cache response: the positive entries
FoundInCache(response) ==
    LET hits == {item \in response : ~IsErrorMarked(item)}
    IN  [user_id \in {item.user_id : item \in hits} |->
            LET item == CHOOSE i \in hits : i.user_id = user_id
            IN  User(user_id, item.login, item.profile_image_url)]

\* second loop: positive entries plus the ids cached as not found
CachedUserIdsPositiveOnly(response) == DOMAIN FoundInCache(response)
CachedUserIds(response) ==
    DOMAIN FoundInCache(response)
        \cup {item.user_id : item \in {i \in response : IsErrorMarked(i)}}

\* third loop: the miss list, in the order of the input
TwitchFetchIds(user_ids, cached_user_ids) ==
    SelectSeq(user_ids, LAMBDA user_id : user_id \notin cached_user_ids)

\* the "data" list of the directory answer; an error body carries no "data"
TwitchResponseData(fetch_ids, directory, answer) ==
    IF answer = "data"
    THEN LET found == SelectSeq(fetch_ids, LAMBDA user_id : user_id \in directory)
         IN  [i \in 1..Len(found) |-> TwitchUserData(found[i])]
    ELSE <<>>

ExpireAtTimestamp(t) == t + OneDay

PositivePut(user, expire_at) ==
    [PutRequest |-> [Item |->
        [user_id |-> user.id, login |-> user.login,
         profile_image_url |-> user.profile_image_url, expireAt |-> expire_at]]]

NegativePut(user_id, expire_at) ==
    [PutRequest |-> [Item |->
        [user_id |-> user_id, error_twitch_api |-> "f", expireAt |-> expire_at]]]

\* cache_write_requests: the fetched users, then the miss ids not fetched
CacheWriteRequestsFoundOnly(data, fetch_ids, expire_at) ==
    [i \in 1..Len(data) |->
        PositivePut(User(data[i].id, data[i].login, data[i].profile_image_url),
                    expire_at)]
CacheWriteRequests(data, fetch_ids, expire_at) ==
    LET fetched_twitch_ids == {data[i].id : i \in 1..Len(data)}
        missing == SelectSeq(fetch_ids, LAMBDA user_id : user_id \notin fetched_twitch_ids)
    IN  [i \in 1..Len(data) |->
            PositivePut(User(data[i].id, data[i].login, data[i].profile_image_url),
                        expire_at)]
        \o [i \in 1..Len(missing) |-> NegativePut(missing[i], expire_at)]

\* found_users_map after the directory answer was processed
FoundAfterFetch(found, data) ==
    LET fetched_twitch_ids == {data[i].id : i \in 1..Len(data)}
    IN  [user_id \in DOMAIN found \cup fetched_twitch_ids |->
            IF user_id \in fetched_twitch_ids
            THEN LET d == data[CHOOSE i \in 1..Len(data) : data[i].id = user_id]
                 IN  User(d.id, d.login, d.profile_image_url)
            ELSE found[user_id]]

\* fields = [("id", user_id) ...] and the one http.request that carries them
HttpRequestsPerId(twitch_fetch_ids) ==
    [i \in 1..Len(twitch_fetch_ids) |-> <<twitch_fetch_ids[i]>>]
HttpRequests(twitch_fetch_ids) == <<twitch_fetch_ids>>

\* the most keys DynamoDB takes in one batch_get_item, the most ids the
\* directory takes in one request, the most requests DynamoDB takes in one
\* batch_write_item
BatchGetItemCap == 100
TwitchIdsCap == 100
BatchWriteItemCap == 25

\* "if not client_id" / "if not oauth_token": unset or empty
MissingCredentials(env) ==
    \/ env.TWITCH_CLIENT_ID \in {None, ""}
    \/ env.TWITCH_OAUTH_TOKEN \in {None, ""}

\* http.request raises when the transport fails (urllib3 MaxRetryError)
HttpRequestRaisesNever(answer) == FALSE
HttpRequestRaises(answer) == answer = "raise"

NoCall == [user_ids |-> <<>>, batch_get_item |-> <<>>, response |-> {},
           twitch_fetch_ids |-> <<>>, request |-> <<>>, answer |-> None,
           twitch_response_data |-> <<>>, batch_write_item |-> <<>>,
           found_users_map |-> <<>>, raised |-> None, time |-> 0, table |-> {}]

\* The whole of get_users on the id list user_ids, run at time t against the
\* cache table and the directory; answer is what the HTTP request does:
\* "data" (a user list), "error_body" (a JSON body without "data") or
\* "raise" (transport failure).  The result records every external call.
get_users(user_ids, table, directory, env, t, answer) ==
    IF user_ids = <<>>
    THEN [NoCall EXCEPT !.time = t, !.table = table]
    ELSE IF HasDuplicates(user_ids)
    THEN \* DynamoDB rejects a batch read whose key list holds duplicates
         [NoCall EXCEPT !.user_ids = user_ids, !.batch_get_item = <<user_ids>>,
                        !.raised = "ClientError", !.time = t, !.table = table]
    ELSE
    LET response == BatchGetItem(table, user_ids)
        found == FoundInCache(response)
        twitch_fetch_ids == TwitchFetchIds(user_ids, CachedUserIds(response))
        read == [NoCall EXCEPT !.user_ids = user_ids,
                               !.batch_get_item = <<user_ids>>,
                               !.response = response,
                               !.twitch_fetch_ids = twitch_fetch_ids,
                               !.found_users_map = found,
                               !.time = t, !.table = table]
    IN  IF twitch_fetch_ids = <<>> THEN read
        ELSE IF MissingCredentials(env)
        THEN [read EXCEPT !.raised = "ValueError", !.found_users_map = <<>>]
        ELSE IF HttpRequestRaises(answer)
        THEN [read EXCEPT !.request = HttpRequests(twitch_fetch_ids),
                          !.answer = answer,
                          !.raised = "MaxRetryError", !.found_users_map = <<>>]
        ELSE
        LET data == TwitchResponseData(twitch_fetch_ids, directory, answer)
            cache_write_requests ==
                CacheWriteRequests(data, twitch_fetch_ids, ExpireAtTimestamp(t))
        IN  IF Len(cache_write_requests) > BatchWriteItemCap
            THEN \* DynamoDB rejects a batch write of more requests than its cap
                 [read EXCEPT !.request = HttpRequests(twitch_fetch_ids),
                              !.answer = answer,
                              !.twitch_response_data = data,
                              !.batch_write_item = <<cache_write_requests>>,
                              !.raised = "ClientError", !.found_users_map = <<>>]
            ELSE [read EXCEPT !.request = HttpRequests(twitch_fetch_ids),
                              !.answer = answer,
                              !.twitch_response_data = data,
                              !.batch_write_item = <<cache_write_requests>>,
                              !.found_users_map = FoundAfterFetch(found, data),
                              !.table = BatchWriteItem(table, cache_write_requests)]

Answers == {"data", "error_body", "raise"}

\* --------------------------------------------------------- environment
\* os.environ with both credentials, without client id, with an empty token
Environs ==
    {[TWITCH_CLIENT_ID |-> "id", TWITCH_OAUTH_TOKEN |-> "token"],
     [TWITCH_CLIENT_ID |-> None, TWITCH_OAUTH_TOKEN |-> "token"],
     [TWITCH_CLIENT_ID |-> "id", TWITCH_OAUTH_TOKEN |-> ""]}

Tick ==
    /\ gu.pc = "idle"
    /\ now < THIRTY_DAYS_IN_MS + MaxTicks
    /\ now' = now + 1
    /\ UNCHANGED <<environ, users, twitch, gu, comments, gr, connections, bc,
                 rankings, rp, apig_management, wh, rt, rs>>

\* DynamoDB deletes an expired item some time after it expired
TtlSweep ==
    /\ gu.pc = "idle"
    /\ \E item \in users :
        /\ Expired(item, now)
        /\ users' = users \ {item}
    /\ UNCHANGED <<now, environ, twitch, gu, comments, gr, connections, bc,
                 rankings, rp, apig_management, wh, rt, rs>>

\* an account is created in or deleted from the directory
TwitchChange ==
    /\ gu.pc = "idle"
    /\ \E user_id \in UserIds :
        twitch' = IF user_id \in twitch THEN twitch \ {user_id}
                  ELSE twitch \cup {user_id}
    /\ UNCHANGED <<now, environ, users, gu, comments, gr, connections, bc,
                 rankings, rp, apig_management, wh, rt, rs>>

\* ------------------------------------------- a direct call of get_users
Idle == [pc |-> "idle"] @@ NoCall

GetUsersCall ==
    /\ gu.pc = "idle"
    /\ \E user_ids \in SeqsUpTo(UserIds, MaxIds), answer \in Answers :
        LET r == get_users(user_ids, users, twitch, environ, now, answer)
        IN  /\ gu' = [pc |-> IF r.raised = None THEN "returned" ELSE "raised"] @@ r
            /\ users' = r.table
    /\ UNCHANGED <<now, environ, twitch, comments, gr, connections, bc,
                 rankings, rp, apig_management, wh, rt, rs>>

GetUsersDone ==
    /\ gu.pc # "idle"
    /\ gu' = Idle
    /\ UNCHANGED <<now, environ, users, twitch, comments, gr, connections, bc,
                 rankings, rp, apig_management, wh, rt, rs>>

\* ---------------------------------------------------- commons.get_ranking
NoKey == 0

\* item.get("chatter_user_id", {}).get("S")
ChatterUserId(item) ==
    IF "chatter_user_id" \in DOMAIN item THEN item.chatter_user_id ELSE None

\* dynamodb.scan of "comments": the store evaluates the k items after the
\* start key, returns those of them that pass the BETWEEN filter, and a
\* LastEvaluatedKey unless it reached the end of the table
ScanOpenEnded(table, exclusive_start_key, k, start_time, end_time) ==
    LET last == IF exclusive_start_key + k < Len(table)
                THEN exclusive_start_key + k ELSE Len(table)
        evaluated == SubSeq(table, exclusive_start_key + 1, last)
    IN  [Items |-> SelectSeq(evaluated, LAMBDA item :
                        /\ start_time <= item.reception_unixtime
                        /\ item.reception_unixtime < end_time),
         LastEvaluatedKey |-> IF last < Len(table) THEN last ELSE NoKey]
Scan(table, exclusive_start_key, k, start_time, end_time) ==
    LET last == IF exclusive_start_key + k < Len(table)
                THEN exclusive_start_key + k ELSE Len(table)
        evaluated == SubSeq(table, exclusive_start_key + 1, last)
    IN  [Items |-> SelectSeq(evaluated, LAMBDA item :
                        /\ start_time <= item.reception_unixtime
                        /\ item.reception_unixtime <= end_time),
         LastEvaluatedKey |-> IF last < Len(table) THEN last ELSE NoKey]

\* the keys of a Counter fed with the messages: the ids in first-seen order
FirstSeen(messages) ==
    LET counted(i) == ChatterUserId(messages[i]) \notin {None, ""}
        first(i) == /\ counted(i)
                    /\ \A j \in 1..(i - 1) :
                            ChatterUserId(messages[j]) # ChatterUserId(messages[i])
        at == SelectSeq([i \in 1..Len(messages) |-> i], first)
    IN  [i \in 1..Len(at) |-> ChatterUserId(messages[at[i]])]

\* chatter_message_counts: the pairs (id, count), in first-seen order
ChatterMessageCounts(messages) ==
    LET keys == FirstSeen(messages)
    IN  [i \in 1..Len(keys) |->
            <<keys[i], Cardinality({k \in 1..Len(messages) :
                                        ChatterUserId(messages[k]) = keys[i]})>>]

\* Counter.most_common(n): sorted by count, largest first, equal counts in
\* the order of the Counter; the first n of them
MostCommonLastSeen(counts, n) ==
    LET place(i) == Cardinality({j \in 1..Len(counts) :
                        \/ counts[j][2] > counts[i][2]
                        \/ counts[j][2] = counts[i][2] /\ j > i}) + 1
        sorted == [p \in 1..Len(counts) |->
                    counts[CHOOSE i \in 1..Len(counts) : place(i) = p]]
    IN  SubSeq(sorted, 1, IF n < Len(counts) THEN n ELSE Len(counts))
MostCommon(counts, n) ==
    LET place(i) == Cardinality({j \in 1..Len(counts) :
                        \/ counts[j][2] > counts[i][2]
                        \/ counts[j][2] = counts[i][2] /\ j < i}) + 1
        sorted == [p \in 1..Len(counts) |->
                    counts[CHOOSE i \in 1..Len(counts) : place(i) = p]]
    IN  SubSeq(sorted, 1, IF n < Len(counts) THEN n ELSE Len(counts))

\* the loop that builds the ranking: one entry per top chatter that resolved
RankingEntry(user_data, count) ==
    [userId |-> user_data.id, userLogin |-> user_data.login,
     messageCount |-> count, profileImageUrl |-> user_data.profile_image_url]

RECURSIVE BuildRankingKeepAll(_, _)
BuildRankingKeepAll(top, user_data_map) ==
    IF top = <<>> THEN <<>>
    ELSE LET user_id == Head(top)[1]
             rest == BuildRankingKeepAll(Tail(top), user_data_map)
         IN  IF user_id \in DOMAIN user_data_map
             THEN <<RankingEntry(user_data_map[user_id], Head(top)[2])>> \o rest
             ELSE <<RankingEntry(User(user_id, None, None), Head(top)[2])>> \o rest

RECURSIVE BuildRanking(_, _)
BuildRanking(top, user_data_map) ==
    IF top = <<>> THEN <<>>
    ELSE LET user_id == Head(top)[1]
             rest == BuildRanking(Tail(top), user_data_map)
         IN  IF user_id \in DOMAIN user_data_map
             THEN <<RankingEntry(user_data_map[user_id], Head(top)[2])>> \o rest
             ELSE rest

\* a time argument that is None
NoTime == 0 - 1

RankingIdle ==
    [pc |-> "idle", caller |-> None, start_unixtime |-> 0, end_unixtime |-> 0,
     page_size |-> 1,
     last_evaluated_key |-> NoKey, all_messages |-> <<>>, scan |-> <<>>,
     top_chatters |-> <<>>, get_users |-> <<>>, user_data_map |-> <<>>,
     ranking |-> <<>>, raised |-> None,
     start_arg |-> NoTime, end_arg |-> NoTime, time |-> 0]

\* lines 57-67: the defaults of the time range, then the empty accumulators;
\* page_size is the number of stored items the store evaluates per scan call
\* while this invocation scans
RankingStarted(caller, start_arg, end_arg, t, page_size) ==
    [RankingIdle EXCEPT
        !.pc = "scan", !.caller = caller, !.page_size = page_size,
        !.start_arg = start_arg, !.end_arg = end_arg, !.time = t,
        !.end_unixtime = IF end_arg = NoTime THEN t ELSE end_arg,
        !.start_unixtime = IF start_arg = NoTime THEN t - THIRTY_DAYS_IN_MS
                           ELSE start_arg]

\* the time arguments a caller may pass; NoTime leaves the default
TimeArgs == {NoTime, 1}

GetRankingCall ==
    /\ gr.pc = "idle"
    /\ \E start_arg \in TimeArgs, end_arg \in TimeArgs, page_size \in 1..MaxPage :
        gr' = RankingStarted("direct", start_arg, end_arg, now, page_size)
    /\ UNCHANGED <<now, environ, users, twitch, gu, comments, connections, bc,
                 rankings, rp, apig_management, wh, rt, rs>>

\* scan_params: the filter bounds, and the start key when there is one
ScanParams(last_evaluated_key, start_unixtime, end_unixtime) ==
    [ExclusiveStartKey |-> last_evaluated_key,
     start_time |-> start_unixtime, end_time |-> end_unixtime]

\* "if not last_evaluated_key: break"
NoMorePagesAfterFirst(last_evaluated_key) == TRUE
NoMorePages(last_evaluated_key) == last_evaluated_key = NoKey

\* one pass of the while loop: one scan call, lines 70-85
GetRankingScan ==
    /\ gr.pc = "scan"
    /\ \E scan_params \in {ScanParams(gr.last_evaluated_key,
                                      gr.start_unixtime, gr.end_unixtime)} :
       \E response \in {Scan(comments, scan_params.ExclusiveStartKey, gr.page_size,
                              scan_params.start_time, scan_params.end_time)} :
            gr' = [gr EXCEPT
                !.scan = Append(@, [params |-> scan_params, response |-> response]),
                !.all_messages = @ \o response.Items,
                !.last_evaluated_key = response.LastEvaluatedKey,
                !.pc = IF NoMorePages(response.LastEvaluatedKey)
                       THEN "aggregate" ELSE "scan"]
    /\ UNCHANGED <<now, environ, users, twitch, gu, comments, connections, bc,
                 rankings, rp, apig_management, wh, rt, rs>>

\* "if top_chatters_ids:" guards the call of get_users
CallsResolverAlways(top_chatters_ids) == TRUE
CallsResolver(top_chatters_ids) == top_chatters_ids # <<>>

\* lines 86-116: count, take the top chatters, resolve them, build the ranking
GetRankingAggregate ==
    /\ gr.pc = "aggregate"
    /\ \E chatter_message_counts \in {ChatterMessageCounts(gr.all_messages)} :
       \E top \in {MostCommon(chatter_message_counts, TopK)} :
       \E top_chatters_ids \in {[i \in 1..Len(top) |-> top[i][1]]} :
           IF ~CallsResolver(top_chatters_ids)
           THEN /\ gr' = [gr EXCEPT !.pc = "returned"]
                /\ users' = users
           ELSE \E answer \in Answers :
                \E r \in {get_users(top_chatters_ids, users, twitch, environ,
                                   now, answer)} :
                    /\ users' = r.table
                    /\ gr' = [gr EXCEPT
                            !.top_chatters = top,
                            !.get_users = <<r>>,
                            !.raised = r.raised,
                            !.user_data_map =
                                IF r.raised = None THEN r.found_users_map ELSE <<>>,
                            !.ranking =
                                IF r.raised = None
                                THEN BuildRanking(top, r.found_users_map)
                                ELSE <<>>,
                            !.pc = IF r.raised = None THEN "returned" ELSE "raised"]
    /\ UNCHANGED <<now, environ, twitch, gu, comments, connections, bc,
                 rankings, rp, apig_management, wh, rt, rs>>

GetRankingDone ==
    /\ gr.pc \in {"returned", "raised"}
    /\ gr.caller = "direct"
    /\ gr' = RankingIdle
    /\ UNCHANGED <<now, environ, users, twitch, gu, comments, connections, bc,
                 rankings, rp, apig_management, wh, rt, rs>>

\* ---------------------------------------------- broadcaster.lambda_handler
BroadcastIdle ==
    [pc |-> "idle", connections |-> <<>>, i |-> 1, scan |-> 0, get_ranking |-> 0,
     post_to_connection |-> <<>>, delete_item |-> <<>>, raised |-> None,
     response |-> [statusCode |-> 0, body |-> None], registry |-> {}]

\* connections_table.scan().get("Items", []): the items of the first page of
\* the scan, in the order the table returns them
ScanItems(table, order) ==
    /\ Range(order) \subseteq table
    /\ ~HasDuplicates(order)
    /\ Len(order) = (IF Cardinality(table) < MaxRegistryPage
                     THEN Cardinality(table) ELSE MaxRegistryPage)

\* line 35
BroadcastScan ==
    /\ bc.pc = "idle"
    /\ gr.pc = "idle"
    /\ \E order \in SeqsUpTo(ConnectionIds, MaxRegistryPage) :
        /\ ScanItems(connections, order)
        /\ bc' = [BroadcastIdle EXCEPT !.pc = "loop", !.connections = order,
                                       !.scan = 1, !.registry = connections]
    /\ UNCHANGED <<now, environ, users, twitch, gu, comments, gr, connections,
                 rankings, rp, apig_management, wh, rt, rs>>

\* line 41: the argument commons.get_ranking() of the delivery to the
\* connection at hand is evaluated
BroadcastGetRanking ==
    /\ bc.pc = "loop"
    /\ bc.i <= Len(bc.connections)
    /\ \E page_size \in 1..MaxPage :
        gr' = RankingStarted("broadcaster", NoTime, NoTime, now, page_size)
    /\ bc' = [bc EXCEPT !.pc = "get_ranking", !.get_ranking = @ + 1]
    /\ UNCHANGED <<now, environ, users, twitch, gu, comments, connections,
                 rankings, rp, apig_management, wh, rt, rs>>

\* the message of line 41
RankingMessage(ranking) == [type |-> "ranking", data |-> ranking]

\* what post_to_connection may do
PostOutcomes == {"ok", "GoneException", "Exception"}

\* where the loop goes after a delivery: the except clause of line 43
\* catches GoneException only
AfterPostSwallowAll(outcome) == IF outcome = "ok" THEN "loop" ELSE "delete"
AfterPostGoneRaises(outcome) == IF outcome = "ok" THEN "loop" ELSE "raised"
AfterPostKeepsGone(outcome) ==
    IF outcome \in {"ok", "GoneException"} THEN "loop" ELSE "raised"
AfterPost(outcome) ==
    IF outcome = "ok" THEN "loop"
    ELSE IF outcome = "GoneException" THEN "delete"
    ELSE "raised"

\* lines 38-42: get_ranking returned or raised, then the delivery
BroadcastPost ==
    /\ bc.pc = "get_ranking"
    /\ gr.pc \in {"returned", "raised"}
    /\ IF gr.pc = "raised"
       THEN bc' = [bc EXCEPT !.pc = "raised", !.raised = gr.raised]
       ELSE \E outcome \in PostOutcomes :
            bc' = [bc EXCEPT
                !.post_to_connection =
                    Append(@, [ConnectionId |-> bc.connections[bc.i],
                               Data |-> RankingMessage(gr.ranking),
                               outcome |-> outcome]),
                !.pc = AfterPost(outcome),
                !.raised = IF AfterPost(outcome) = "raised" THEN outcome ELSE None,
                !.i = IF AfterPost(outcome) = "loop" THEN bc.i + 1 ELSE bc.i]
    /\ gr' = RankingIdle
    /\ UNCHANGED <<now, environ, users, twitch, gu, comments, connections,
                 rankings, rp, apig_management, wh, rt, rs>>

\* connections_table.delete_item
DeleteItemClears(table, connection_id) == {}
DeleteItem(table, connection_id) == table \ {connection_id}

\* line 44
BroadcastDelete ==
    /\ bc.pc = "delete"
    /\ connections' = DeleteItem(connections, bc.connections[bc.i])
    /\ bc' = [bc EXCEPT !.delete_item = Append(@, bc.connections[bc.i]),
                        !.pc = "loop", !.i = bc.i + 1]
    /\ UNCHANGED <<now, environ, users, twitch, gu, comments, gr,
                 rankings, rp, apig_management, wh, rt, rs>>

\* line 45
BroadcastReturn ==
    /\ bc.pc = "loop"
    /\ bc.i > Len(bc.connections)
    /\ bc' = [bc EXCEPT !.pc = "returned",
                        !.response = [statusCode |-> 200,
                                      body |-> "Ranking sent to clients"]]
    /\ UNCHANGED <<now, environ, users, twitch, gu, comments, gr, connections,
                 rankings, rp, apig_management, wh, rt, rs>>

\* the invocation is over; the next one may start
BroadcastDone ==
    /\ bc.pc \in {"returned", "raised"}
    /\ bc' = [BroadcastIdle EXCEPT !.pc = "idle"]
    /\ UNCHANGED <<now, environ, users, twitch, gu, comments, gr, connections,
                 rankings, rp, apig_management, wh, rt, rs>>

\* ------------------------------------------ rankings_processor.lambda_handler
\* the execution environments of the function: each serves one invocation
\* at a time and keeps its module globals from one invocation to the next
Procs == {"p1", "p2"}

RouteKeys == {"$connect", "$disconnect", "getRanking", "unknownRoute"}
RequesterIds == {"c1", "c2"}
DomainNames == {"d1", "d2"}
Stages == {"prod"}

\* event.get("requestContext"): absent, an empty dict, or a dict in which
\* each of the four keys the handler reads may be missing
NoContext ==
    [kind |-> "absent", connectionId |-> None, routeKey |-> None,
     domainName |-> None, stage |-> None]
EmptyContext == [NoContext EXCEPT !.kind = "empty"]
RequestContexts ==
    {NoContext, EmptyContext}
    \cup [kind : {"dict"}, connectionId : {None} \cup RequesterIds,
          routeKey : {None} \cup RouteKeys,
          domainName : {None} \cup DomainNames, stage : {None} \cup Stages]

\* the end of the window an event may carry; NoTime when it carries none
EndArgs == {NoTime, THIRTY_DAYS_IN_MS - 1}

Events == [requestContext : RequestContexts, end_unixtime : EndArgs]

\* f"https://{domain_name}/{stage}"
Endpoint(domain_name, stage) == "https://" \o domain_name \o "/" \o stage

\* the texts of the responses
BadRequest == "Bad Request: Malformed WebSocket event."
EndpointMissing == "Internal Server Error: WebSocket endpoint details missing."
UnknownRouteKey(route_key) == "Unknown route key: " \o route_key
NoNewMessages == "No new messages to process."
ProcessedSuccessfully == "Rankings processed successfully."
\* the text of the exception is "e"
ErrorWritingRankings == "Error writing rankings: " \o "e"
ErrorProcessingRankings == "Error processing rankings: " \o "e"

Response(status_code, body) == [statusCode |-> status_code, body |-> body]

\* "if connection_id is None or route_key is None"
MalformedWithoutRouteOnly(request_context) == request_context.routeKey = None
Malformed(request_context) ==
    request_context.connectionId = None \/ request_context.routeKey = None

\* lines 33-69 of lambda_handler: what the handler does with the event, given
\* the global apig_management: it answers at once, or goes on to get_ranking;
\* it may set the global
Dispatch(event, client) ==
    LET request_context == event.requestContext
        answer(response, new_client) ==
            [get_ranking |-> FALSE, connection_id |-> None,
             response |-> response, apig_management |-> new_client]
        compute(connection_id, new_client) ==
            [get_ranking |-> TRUE, connection_id |-> connection_id,
             response |-> Response(0, None), apig_management |-> new_client]
    IN  IF request_context.kind # "dict"
        THEN compute(None, client)
        ELSE IF Malformed(request_context)
        THEN answer(Response(400, BadRequest), client)
        ELSE IF /\ client = None
                /\ (request_context.domainName = None \/ request_context.stage = None)
        THEN answer(Response(500, EndpointMissing), client)
        ELSE
        LET new_client == IF client = None
                          THEN Endpoint(request_context.domainName, request_context.stage)
                          ELSE client
        IN  IF request_context.routeKey \in {"$connect", "$disconnect"}
            THEN answer(Response(200, None), new_client)
            ELSE IF request_context.routeKey = "getRanking"
            THEN compute(request_context.connectionId, new_client)
            ELSE answer(Response(400, UnknownRouteKey(request_context.routeKey)),
                        new_client)

\* ------------------------------------------ rankings_processor.get_ranking
\* the item of the "rankings" table that line 173 writes
SnapshotItemFixedWindow(end_unixtime, top_chatters) ==
    [ranking_type |-> "chatter_activity",
     window_end_unixtime |-> 0,
     top_chatters |-> [i \in 1..Len(top_chatters) |->
                        [user_id |-> top_chatters[i][1],
                         message_count |-> top_chatters[i][2]]]]
SnapshotItem(end_unixtime, top_chatters) ==
    [ranking_type |-> "chatter_activity",
     window_end_unixtime |-> end_unixtime,
     top_chatters |-> [i \in 1..Len(top_chatters) |->
                        [user_id |-> top_chatters[i][1],
                         message_count |-> top_chatters[i][2]]]]

\* top_chatters_response
TopChattersResponse(top_chatters) ==
    [i \in 1..Len(top_chatters) |->
        [userId |-> top_chatters[i][1], messageCount |-> top_chatters[i][2]]]

\* the primary key of the "rankings" table
RankingsKey(item) == <<item.ranking_type, item.window_end_unixtime>>

\* dynamodb.put_item: the item takes the place of the stored item that has
\* its key, if there is one
PutSnapshotIfAbsent(table, item) ==
    IF \E stored \in table : RankingsKey(stored) = RankingsKey(item)
    THEN table ELSE table \cup {item}
PutSnapshot(table, item) ==
    {stored \in table : RankingsKey(stored) # RankingsKey(item)} \cup {item}

ProcIdle ==
    [pc |-> "idle", event |-> [requestContext |-> NoContext, end_unixtime |-> NoTime],
     connection_id |-> None, start_unixtime |-> 0, end_unixtime |-> 0,
     page_size |-> 1, last_evaluated_key |-> NoKey, all_messages |-> <<>>,
     scan |-> <<>>, put_item |-> <<>>,
     status_code |-> 200, body_message |-> "", response_type |-> "ranking",
     response_data |-> [topChatters |-> <<>>],
     post_to_connection |-> <<>>, response |-> Response(0, None), time |-> 0]

\* lines 92-105: the initial values of get_ranking and its window
ProcStarted(event, connection_id, t, page_size) ==
    LET end_unixtime == IF event.end_unixtime = NoTime THEN t
                        ELSE event.end_unixtime
    IN  [ProcIdle EXCEPT
            !.pc = "scan", !.event = event, !.connection_id = connection_id,
            !.page_size = page_size, !.time = t, !.end_unixtime = end_unixtime,
            !.start_unixtime = end_unixtime - THIRTY_DAYS_IN_MS]

\* lines 190-196: the outer except clause
ProcessingFailedKeepsType(r) ==
    [r EXCEPT !.status_code = 500, !.body_message = ErrorProcessingRankings,
              !.pc = "post"]
ProcessingFailed(r) ==
    [r EXCEPT !.status_code = 500, !.body_message = ErrorProcessingRankings,
              !.response_type = "error",
              !.response_data = [message |-> ErrorProcessingRankings],
              !.pc = "post"]

\* lines 183-188: the except clause of the snapshot write
WritingFailedKeepEntries(r) ==
    [r EXCEPT !.status_code = 500, !.body_message = ErrorWritingRankings,
              !.pc = "post"]
WritingFailedSilently(r) ==
    [r EXCEPT !.body_message = ProcessedSuccessfully, !.pc = "post"]
WritingFailed(r) ==
    [r EXCEPT !.status_code = 500, !.body_message = ErrorWritingRankings,
              !.response_type = "error",
              !.response_data = [message |-> ErrorWritingRankings],
              !.pc = "post"]

CallOutcomes == {"ok", "raise"}

\* "if not all_messages:"
NothingToProcessNever(all_messages) == FALSE
NothingToProcess(all_messages) == all_messages = <<>>

\* one invocation starts in environment p: lambda_handler up to the point
\* where it answers or enters the scan loop of get_ranking
ProcessorInvoke(p, events) ==
    /\ rp[p].pc = "idle"
    /\ \E event \in events, page_size \in 1..MaxPage :
       \E d \in {Dispatch(event, apig_management[p])} :
        /\ apig_management' = [apig_management EXCEPT ![p] = d.apig_management]
        /\ rp' = [rp EXCEPT ![p] =
                IF d.get_ranking
                THEN ProcStarted(event, d.connection_id, now, page_size)
                ELSE [ProcIdle EXCEPT !.pc = "returned", !.event = event,
                                      !.response = d.response]]
    /\ UNCHANGED <<now, environ, users, twitch, gu, comments, gr, connections, bc,
                   rankings, wh, rt, rs>>

\* one pass of the while loop, lines 109-131: one scan call, which may raise
ProcessorScan(p) ==
    /\ rp[p].pc = "scan"
    /\ \E outcome \in CallOutcomes :
       \E scan_params \in {ScanParams(rp[p].last_evaluated_key,
                                      rp[p].start_unixtime, rp[p].end_unixtime)} :
       \E response \in {Scan(comments, scan_params.ExclusiveStartKey, rp[p].page_size,
                              scan_params.start_time, scan_params.end_time)} :
        rp' = [rp EXCEPT ![p] =
            IF outcome = "raise"
            THEN ProcessingFailed([rp[p] EXCEPT
                    !.scan = Append(@, [params |-> scan_params, outcome |-> outcome])])
            ELSE [rp[p] EXCEPT
                    !.scan = Append(@, [params |-> scan_params, outcome |-> outcome]),
                    !.all_messages = @ \o response.Items,
                    !.last_evaluated_key = response.LastEvaluatedKey,
                    !.pc = IF NoMorePages(response.LastEvaluatedKey)
                           THEN "aggregate" ELSE "scan"]]
    /\ UNCHANGED <<now, environ, users, twitch, gu, comments, gr, connections, bc,
                   rankings, apig_management, wh, rt, rs>>

\* lines 133-188: nothing to do for an empty window; else count, take the
\* top chatters and write the snapshot, which may raise
ProcessorAggregate(p) ==
    /\ rp[p].pc = "aggregate"
    /\ IF NothingToProcess(rp[p].all_messages)
       THEN /\ rp' = [rp EXCEPT ![p].body_message = NoNewMessages, ![p].pc = "post"]
            /\ rankings' = rankings
       ELSE \E chatter_message_counts \in {ChatterMessageCounts(rp[p].all_messages)} :
            \E top_chatters \in {MostCommon(chatter_message_counts, TopK)} :
            \E item \in {SnapshotItem(rp[p].end_unixtime, top_chatters)} :
            \E outcome \in CallOutcomes :
            \E computed \in {[rp[p] EXCEPT
                    !.response_data = [topChatters |-> TopChattersResponse(top_chatters)],
                    !.put_item = <<[Item |-> item, outcome |-> outcome]>>]} :
                IF outcome = "ok"
                THEN /\ rankings' = PutSnapshot(rankings, item)
                     /\ rp' = [rp EXCEPT ![p] =
                            [computed EXCEPT !.body_message = ProcessedSuccessfully,
                                             !.pc = "post"]]
                ELSE /\ rankings' = rankings
                     /\ rp' = [rp EXCEPT ![p] = WritingFailed(computed)]
    /\ UNCHANGED <<now, environ, users, twitch, gu, comments, gr, connections, bc,
                   apig_management, wh, rt, rs>>

\* "if connection_id:" guards the message to the requester
SendsMessageAlways(connection_id) == TRUE
SendsMessage(connection_id) == connection_id \notin {None, ""}

\* line 211: the return value, which the outcome of the message to the
\* requester does not enter
ReturnValueReportsPost(r, outcome) ==
    IF outcome = "raise" /\ SendsMessage(r.connection_id)
    THEN Response(500, ErrorProcessingRankings)
    ELSE Response(r.status_code, r.body_message)
ReturnValue(r, outcome) == Response(r.status_code, r.body_message)

\* lines 198-211: the message to the requester, whose failure is only
\* logged, and the return value
ProcessorPost(p) ==
    /\ rp[p].pc = "post"
    /\ \E outcome \in CallOutcomes :
        rp' = [rp EXCEPT ![p] =
            [rp[p] EXCEPT
                !.post_to_connection =
                    IF SendsMessage(rp[p].connection_id)
                    THEN <<[ConnectionId |-> rp[p].connection_id,
                            Data |-> [type |-> rp[p].response_type,
                                      data |-> rp[p].response_data],
                            endpoint_url |-> apig_management[p],
                            outcome |-> outcome]>>
                    ELSE <<>>,
                !.response = ReturnValue(rp[p], outcome),
                !.pc = "returned"]]
    /\ UNCHANGED <<now, environ, users, twitch, gu, comments, gr, connections, bc,
                   rankings, apig_management, wh, rt, rs>>

\* the invocation is over; the environment is free for the next one
ProcessorDone(p) ==
    /\ rp[p].pc = "returned"
    /\ rp' = [rp EXCEPT ![p] = ProcIdle]
    /\ UNCHANGED <<now, environ, users, twitch, gu, comments, gr, connections, bc,
                   rankings, apig_management, wh, rt, rs>>

\* the state of the processor while it is not in use
ProcessorUnused ==
    /\ rankings = {}
    /\ rp = [p \in Procs |-> ProcIdle]
    /\ apig_management = [p \in Procs |-> None]

\* --------------------------------------------- call_back_twitch: ingestion
\* save_channel_chat_message: a chat event received now joins the store
SaveChannelChatMessage ==
    /\ Len(comments) < MaxStored
    /\ \E chatter_user_id \in {"u1", "u2"} :
        comments' = Append(comments, [chatter_user_id |-> chatter_user_id,
                                      reception_unixtime |-> now])
    /\ UNCHANGED <<now, environ, users, twitch, gu, gr, connections, bc,
                   rankings, rp, apig_management, wh, rt, rs>>

\* ----------------------------------------- call_back_twitch.lambda_handler
\* the header keys, lower case (lines 11-14)
MESSAGE_ID_KEY == "twitch-eventsub-message-id"
MESSAGE_TIMESTAMP_KEY == "twitch-eventsub-message-timestamp"
MESSAGE_SIGNATURE_KEY == "twitch-eventsub-message-signature"
MESSAGE_TYPE_KEY == "twitch-eventsub-message-type"
HeaderKeys == {MESSAGE_ID_KEY, MESSAGE_TIMESTAMP_KEY, MESSAGE_SIGNATURE_KEY,
               MESSAGE_TYPE_KEY}

HMAC_PREFIX == "sha256="

\* get_secret(): the content of secret.txt
Secret == "secret"

\* hmac.digest(key, message, "sha256").hex(): one text for each key and
\* message
HmacDigestHex(key, message) == "hmac(" \o key \o "," \o message \o ")"

\* the bodies a request may carry: texts, of which json.loads makes objects
ChallengeText == "{\"challenge\":\"ch1\",\"subscription\":{\"type\":\"channel.chat.message\"}}"
NoChallengeText == "{\"subscription\":{\"type\":\"channel.chat.message\"}}"
FollowText == "{\"subscription\":{\"type\":\"channel.follow\"}}"
NotJsonText == "not json"
\* the ids Twitch gives to the chat messages, in the order it sends them
MessageIdsInOrder == <<"m1", "m2", "m3">>
MessageIds == Range(MessageIdsInOrder)
ChatText(message_id) ==
    "{\"subscription\":{\"type\":\"channel.chat.message\",\"condition\":"
    \o "{\"broadcaster_user_id\":\"b1\"}},\"event\":{\"message_id\":\""
    \o message_id \o "\",\"chatter_user_id\":\"u1\",\"message\":{\"text\":\"hi\"}}}"
ChatTexts == {ChatText(message_id) : message_id \in MessageIds}

\* json.loads(text) succeeds
IsJson(text) ==
    text \in {ChallengeText, NoChallengeText, FollowText} \cup ChatTexts

\* json.loads(text), for a text that is JSON
JsonLoads(text) ==
    IF text = ChallengeText
    THEN [challenge |-> "ch1", subscription |-> [type |-> "channel.chat.message"]]
    ELSE IF text = NoChallengeText
    THEN [subscription |-> [type |-> "channel.chat.message"]]
    ELSE IF text = FollowText
    THEN [subscription |-> [type |-> "channel.follow"]]
    ELSE [subscription |-> [type |-> "channel.chat.message",
                            condition |-> [broadcaster_user_id |-> "b1"]],
          event |-> [message_id |-> CHOOSE message_id \in MessageIds :
                                        text = ChatText(message_id),
                     chatter_user_id |-> "u1",
                     message |-> [text |-> "hi"]]]

\* lines 84-109: the four headers and the body are there (None stands for
\* a key that is absent)
is_valid_event(event) ==
    /\ \A key \in HeaderKeys : event.headers[key] # None
    /\ event.body # None

\* lines 112-142
is_valid_signature(event) ==
    HMAC_PREFIX \o HmacDigestHex(Secret,
        event.headers[MESSAGE_ID_KEY] \o event.headers[MESSAGE_TIMESTAMP_KEY]
        \o event.body)
    = event.headers[MESSAGE_SIGNATURE_KEY]

\* lines 145-151
is_challenge(event) ==
    event.headers[MESSAGE_TYPE_KEY] = "webhook_callback_verification"

\* body.get("subscription", {}).get("type")
SubscriptionType(body) ==
    IF "subscription" \in DOMAIN body
    THEN IF "type" \in DOMAIN body.subscription THEN body.subscription.type
         ELSE None
    ELSE None

\* lines 154-184
is_channel_chat_message(event) ==
    /\ event.headers[MESSAGE_TYPE_KEY] = "notification"
    /\ IsJson(event.body)
    /\ SubscriptionType(JsonLoads(event.body)) = "channel.chat.message"

\* lines 194-201: the lookups of save_channel_chat_message find their keys
HasChatFields(event) ==
    /\ event.body \in ChatTexts
    /\ event.requestContext.timeEpoch # NoTime

\* lines 205-214: the item put into the table "comments"
CommentItem(event) ==
    LET body == JsonLoads(event.body)
    IN  [message_id |-> body.event.message_id,
         chatter_user_id |-> body.event.chatter_user_id,
         broadcaster_user_id |-> body.subscription.condition.broadcaster_user_id,
         message_content |-> body.event.message.text,
         reception_unixtime |-> event.requestContext.timeEpoch]

NoEvent ==
    [headers |-> [key \in HeaderKeys |-> None], body |-> None,
     requestContext |-> [timeEpoch |-> NoTime]]

WebhookIdle ==
    [pc |-> "idle", event |-> NoEvent, put_item |-> <<>>,
     response |-> [statusCode |-> 0], raised |-> None]

WebhookReturned(event, response) ==
    [WebhookIdle EXCEPT !.pc = "returned", !.event = event, !.response = response]

\* lines 187-216 inside the try of lines 73-78: the write is made once, and
\* whatever is raised there is caught
SaveReportsFailure(event, outcome) ==
    IF HasChatFields(event)
    THEN [WebhookReturned(event, [statusCode |-> IF outcome = "ok" THEN 200 ELSE 500])
            EXCEPT !.put_item = <<[Item |-> CommentItem(event), outcome |-> outcome]>>]
    ELSE WebhookReturned(event, [statusCode |-> 200])
Save(event, outcome) ==
    IF HasChatFields(event)
    THEN [WebhookReturned(event, [statusCode |-> 200])
            EXCEPT !.put_item = <<[Item |-> CommentItem(event), outcome |-> outcome]>>]
    ELSE WebhookReturned(event, [statusCode |-> 200])

\* lines 54-68
Challenge(event) ==
    IF ~IsJson(event.body)
    THEN [WebhookIdle EXCEPT !.pc = "raised", !.event = event,
                             !.raised = "JSONDecodeError"]
    ELSE IF "challenge" \in DOMAIN JsonLoads(event.body)
    THEN WebhookReturned(event, [statusCode |-> 200,
                                 headers |-> [content_type |-> "text/plain"],
                                 body |-> JsonLoads(event.body).challenge])
    ELSE WebhookReturned(event, [statusCode |-> 400, body |-> "No challenge found"])

\* lines 44-52: the two checks, in this order
ChecksSkipSignature(event) ==
    IF ~is_valid_event(event) THEN 400 ELSE 200
Checks(event) ==
    IF ~is_valid_event(event) THEN 400
    ELSE IF ~is_valid_signature(event) THEN 403
    ELSE 200

\* lines 30-81
call_back_twitch_lambda_handler(event, outcome) ==
    IF Checks(event) # 200 THEN WebhookReturned(event, [statusCode |-> Checks(event)])
    ELSE IF is_challenge(event) THEN Challenge(event)
    ELSE IF is_channel_chat_message(event) THEN Save(event, outcome)
    ELSE WebhookReturned(event, [statusCode |-> 200])

\* the requests that may arrive: any header may be missing, the signature
\* is made with the secret or with another key, over this message or over
\* another one; a chat message carries the id that follows the stored ones
MessageTypes == {"webhook_callback_verification", "notification", "revocation"}
FreshChatTexts ==
    {ChatText(MessageIdsInOrder[k]) :
        k \in {i \in 1..Len(MessageIdsInOrder) : i = Len(comments) + 1}}
Bodies == {ChallengeText, NoChallengeText, FollowText, NotJsonText} \cup FreshChatTexts
Signatures(body) ==
    {HMAC_PREFIX \o HmacDigestHex(Secret, "id1" \o "ts1" \o body),
     HMAC_PREFIX \o HmacDigestHex("forged", "id1" \o "ts1" \o body),
     HMAC_PREFIX \o HmacDigestHex(Secret, "id1" \o "ts1" \o "tampered")}
MissingHeaders == {{}, HeaderKeys} \cup {{key} : key \in HeaderKeys}
WebhookEvent(missing, type, signature, body, time_epoch) ==
    [headers |-> [key \in HeaderKeys |->
                    IF key \in missing THEN None
                    ELSE IF key = MESSAGE_ID_KEY THEN "id1"
                    ELSE IF key = MESSAGE_TIMESTAMP_KEY THEN "ts1"
                    ELSE IF key = MESSAGE_SIGNATURE_KEY THEN signature
                    ELSE type],
     body |-> body,
     requestContext |-> [timeEpoch |-> time_epoch]]
WebhookEvents ==
    UNION {{WebhookEvent(missing, type, signature, body, time_epoch) :
                missing \in MissingHeaders, type \in MessageTypes,
                signature \in Signatures(IF body = None THEN "" ELSE body),
                time_epoch \in {NoTime, now}} :
           body \in {None} \cup Bodies}

\* one invocation, from the request to the response
WebhookInvoke ==
    /\ wh.pc = "idle"
    /\ \E event \in WebhookEvents, outcome \in CallOutcomes :
        \E done \in {call_back_twitch_lambda_handler(event, outcome)} :
            /\ done.put_item # <<>> => Len(comments) < MaxStored
            /\ wh' = done
            /\ comments' = IF done.put_item # <<>> /\ outcome = "ok"
                           THEN Append(comments, done.put_item[1].Item)
                           ELSE comments
    /\ UNCHANGED <<now, environ, users, twitch, gu, gr, connections, bc,
                   rankings, rp, apig_management, rt, rs>>


\* the invocation is over; the next request may arrive
WebhookDone ==
    /\ wh.pc # "idle"
    /\ wh' = WebhookIdle
    /\ UNCHANGED <<now, environ, users, twitch, gu, comments, gr, connections,
                   bc, rankings, rp, apig_management, rt, rs>>

\* ---------------------------------------------------- router.lambda_handler
\* get_ranking.get_ranking, lines 15-18: the default window is computed when
\* the module is loaded, and every call made without arguments uses it
DefaultStart(loaded) == loaded - THIRTY_DAYS_IN_MS
DefaultEnd(loaded) == loaded

\* get_ranking.get_ranking, lines 31-47: the scan calls that read a table of
\* n items in pages of k
RouterScanCalls(n, k, start_time, end_time) ==
    [i \in 1..(IF n = 0 THEN 1 ELSE (n + k - 1) \div k) |->
        [start_time |-> start_time, end_time |-> end_time,
         ExclusiveStartKey |-> (i - 1) * k]]

\* get_ranking.get_ranking, lines 44-59
RouterRanking(table, start_time, end_time) ==
    LET all_messages == SelectSeq(table, LAMBDA item :
                            /\ start_time <= item.reception_unixtime
                            /\ item.reception_unixtime <= end_time)
        top_chatters == MostCommon(ChatterMessageCounts(all_messages), TopK)
    IN  [i \in 1..Len(top_chatters) |->
            [user_id |-> top_chatters[i][1], message_count |-> top_chatters[i][2]]]

\* loaded is the time the execution environment imported the modules,
\* NoTime before its first invocation
RouterIdle ==
    [pc |-> "idle", loaded |-> NoTime, event |-> [requestContext |-> NoContext],
     time |-> 0, put_item |-> <<>>, delete_item |-> <<>>, scan |-> <<>>,
     post_to_connection |-> <<>>, response |-> [statusCode |-> 0], raised |-> None]

\* lines 7-10: a lookup of the request context fails
RouterKeyError(event) ==
    \/ event.requestContext.kind # "dict"
    \/ event.requestContext.routeKey = None
    \/ event.requestContext.connectionId = None
    \/ event.requestContext.domainName = None
    \/ event.requestContext.stage = None

\* connections_table.put_item(Item={"connection_id": connection_id})
PutConnectionNothing(table, connection_id) == table
PutConnection(table, connection_id) == table \cup {connection_id}

\* lines 6-42; d.connections is the registry after the invocation
router_lambda_handler(event, table, registry, loaded, t, page_size, store_outcome, post_outcome) ==
    LET started == [RouterIdle EXCEPT !.pc = "returned", !.event = event,
                                      !.loaded = loaded, !.time = t]
        route_key == event.requestContext.routeKey
        connection_id == event.requestContext.connectionId
        calls == RouterScanCalls(Len(table), page_size,
                                 DefaultStart(loaded), DefaultEnd(loaded))
    IN  IF RouterKeyError(event)
        THEN [rt |-> [started EXCEPT !.pc = "raised", !.raised = "KeyError"],
              connections |-> registry]
        ELSE IF route_key = "$connect"
        THEN IF store_outcome = "ok"
             THEN [rt |-> [started EXCEPT !.put_item = <<connection_id>>,
                                          !.response = [statusCode |-> 200]],
                   connections |-> PutConnection(registry, connection_id)]
             ELSE [rt |-> [started EXCEPT !.put_item = <<connection_id>>,
                                          !.pc = "raised", !.raised = "ClientError"],
                   connections |-> registry]
        ELSE IF route_key = "$disconnect"
        THEN IF store_outcome = "ok"
             THEN [rt |-> [started EXCEPT !.delete_item = <<connection_id>>,
                                          !.response = [statusCode |-> 200]],
                   connections |-> DeleteItem(registry, connection_id)]
             ELSE [rt |-> [started EXCEPT !.delete_item = <<connection_id>>,
                                          !.pc = "raised", !.raised = "ClientError"],
                   connections |-> registry]
        ELSE IF route_key = "getRanking"
        THEN IF store_outcome # "ok"
             THEN [rt |-> [started EXCEPT
                            !.scan = SubSeq(calls, 1, 1),
                            !.response = [statusCode |-> 500, body |-> "ClientError"]],
                   connections |-> registry]
             ELSE [rt |-> [started EXCEPT
                            !.scan = calls,
                            !.post_to_connection =
                                <<[ConnectionId |-> connection_id,
                                   Data |-> [type |-> "ranking",
                                             data |-> RouterRanking(table,
                                                DefaultStart(loaded), DefaultEnd(loaded))],
                                   endpoint_url |-> Endpoint(event.requestContext.domainName,
                                                             event.requestContext.stage),
                                   outcome |-> post_outcome]>>,
                            !.response = IF post_outcome = "ok"
                                         THEN [statusCode |-> 200]
                                         ELSE [statusCode |-> 500, body |-> "Exception"]],
                   connections |-> registry]
        ELSE [rt |-> [started EXCEPT
                        !.response = [statusCode |-> 400, body |-> "Unknown route"]],
              connections |-> registry]

RouterEvents == [requestContext : RequestContexts]

\* one invocation, from the event to the response; the first invocation of
\* the execution environment loads the modules
RouterInvoke(events) ==
    /\ rt.pc = "idle"
    /\ \E event \in events, page_size \in 1..MaxPage,
          store_outcome \in CallOutcomes, post_outcome \in CallOutcomes :
        \E d \in {router_lambda_handler(event, comments, connections,
                        IF rt.loaded = NoTime THEN now ELSE rt.loaded, now,
                        page_size, store_outcome, post_outcome)} :
            /\ rt' = d.rt
            /\ connections' = d.connections
    /\ UNCHANGED <<now, environ, users, twitch, gu, comments, gr, bc,
                   rankings, rp, apig_management, wh, rs>>

\* the invocation is over; the execution environment keeps its modules
RouterDone ==
    /\ rt.pc # "idle"
    /\ rt' = [RouterIdle EXCEPT !.loaded = rt.loaded]
    /\ UNCHANGED <<now, environ, users, twitch, gu, comments, gr, connections,
                   bc, rankings, rp, apig_management, wh, rs>>

\* ------------------------------- commons.get_users, invocations in parallel
\* the invocations of get_users that run at the same time, each between its
\* calls of the cache and of the directory
Resolvers == {"r1", "r2"}

ResolverIdle ==
    [pc |-> "idle", user_ids |-> <<>>, twitch_fetch_ids |-> <<>>,
     twitch_response_data |-> <<>>, cache_write_requests |-> <<>>,
     raised |-> None]

\* the id lists of the parallel invocations: they overlap
OverlappingIds == {<<"u1">>, <<"u1", "u2">>, <<"u2", "u1">>}

\* lines 146-179: the batch read and the miss list
ResolveRead(r) ==
    /\ rs[r].pc = "idle"
    /\ \E user_ids \in OverlappingIds :
        \E twitch_fetch_ids \in
            {TwitchFetchIds(user_ids, CachedUserIds(BatchGetItem(users, user_ids)))} :
            rs' = [rs EXCEPT ![r] =
                    [ResolverIdle EXCEPT
                        !.pc = IF twitch_fetch_ids = <<>> THEN "returned" ELSE "request",
                        !.user_ids = user_ids,
                        !.twitch_fetch_ids = twitch_fetch_ids]]
    /\ UNCHANGED <<now, environ, users, twitch, gu, comments, gr, connections,
                   bc, rankings, rp, apig_management, wh, rt>>

\* lines 184-248: the credentials, the directory request and the write
\* requests made of its answer
ResolveRequest(r) ==
    /\ rs[r].pc = "request"
    /\ IF MissingCredentials(environ)
       THEN rs' = [rs EXCEPT ![r].pc = "raised", ![r].raised = "ValueError"]
       ELSE \E answer \in Answers :
            IF HttpRequestRaises(answer)
            THEN rs' = [rs EXCEPT ![r].pc = "raised", ![r].raised = "MaxRetryError"]
            ELSE \E data \in {TwitchResponseData(rs[r].twitch_fetch_ids, twitch, answer)} :
                 rs' = [rs EXCEPT
                    ![r].pc = "write",
                    ![r].twitch_response_data = data,
                    ![r].cache_write_requests =
                        CacheWriteRequests(data, rs[r].twitch_fetch_ids,
                                           ExpireAtTimestamp(now))]
    /\ UNCHANGED <<now, environ, users, twitch, gu, comments, gr, connections,
                   bc, rankings, rp, apig_management, wh, rt>>

\* lines 250-257: the batch write
ResolveWrite(r) ==
    /\ rs[r].pc = "write"
    /\ users' = BatchWriteItem(users, rs[r].cache_write_requests)
    /\ rs' = [rs EXCEPT ![r].pc = "returned"]
    /\ UNCHANGED <<now, environ, twitch, gu, comments, gr, connections,
                   bc, rankings, rp, apig_management, wh, rt>>

\* the invocation is over
ResolveDone(r) ==
    /\ rs[r].pc \in {"returned", "raised"}
    /\ rs' = [rs EXCEPT ![r] = ResolverIdle]
    /\ UNCHANGED <<now, environ, users, twitch, gu, comments, gr, connections,
                   bc, rankings, rp, apig_management, wh, rt>>

\* the handlers that a specification leaves out stay idle
HandlersUnused ==
    /\ wh = WebhookIdle
    /\ rt = RouterIdle
    /\ rs = [r \in Resolvers |-> ResolverIdle]

InitBroadcast ==
    /\ now = THIRTY_DAYS_IN_MS
    /\ environ \in Environs
    /\ users = {}
    /\ twitch = {"u1"}
    /\ gu = Idle
    /\ comments \in SeqsUpTo(
            {[chatter_user_id |-> "u1", reception_unixtime |-> THIRTY_DAYS_IN_MS]}, 1)
    /\ gr = RankingIdle
    /\ connections \in SUBSET ConnectionIds
    /\ bc = BroadcastIdle
    /\ ProcessorUnused
    /\ HandlersUnused

NextBroadcast ==
    \/ BroadcastScan
    \/ BroadcastGetRanking
    \/ GetRankingScan
    \/ GetRankingAggregate
    \/ BroadcastPost
    \/ BroadcastDelete
    \/ BroadcastReturn
    \/ BroadcastDone

SpecBroadcast == InitBroadcast /\ [][NextBroadcast]_vars

\* cache items that earlier invocations, made with credentials, left behind
LeftInCache ==
    {PositivePut(TwitchUserData("u1"),
                 ExpireAtTimestamp(THIRTY_DAYS_IN_MS)).PutRequest.Item,
     NegativePut("u2", ExpireAtTimestamp(THIRTY_DAYS_IN_MS)).PutRequest.Item}

InitResolve ==
    /\ now = THIRTY_DAYS_IN_MS
    /\ environ \in Environs
    /\ users \in SUBSET LeftInCache
    /\ twitch \in SUBSET UserIds
    /\ gu = Idle
    /\ comments = <<>>
    /\ gr = RankingIdle
    /\ connections = {}
    /\ bc = BroadcastIdle
    /\ ProcessorUnused
    /\ HandlersUnused

\* events of two participants inside and outside the default window, and a
\* record that carries no participant id
SmallItems ==
    {[chatter_user_id |-> user_id, reception_unixtime |-> t] :
        user_id \in {"u1", "u2"}, t \in {0, THIRTY_DAYS_IN_MS}}
    \cup {[reception_unixtime |-> THIRTY_DAYS_IN_MS]}

\* more participants than the ranking has places
Participants ==
    <<"u1", "u2", "u3", "u4", "u5", "u6", "u7", "u8", "u9", "u10", "u11", "u12">>

OneEventEach(n) ==
    [i \in 1..n |-> [chatter_user_id |-> Participants[i],
                      reception_unixtime |-> THIRTY_DAYS_IN_MS]]

ExtraItems ==
    {[chatter_user_id |-> user_id, reception_unixtime |-> THIRTY_DAYS_IN_MS] :
        user_id \in {"u2", "u11"}}

\* stores of few arbitrary events, with any directory
InitFewEvents ==
    /\ comments \in SeqsUpTo(SmallItems, MaxEvents)
    /\ twitch \in SUBSET {"u1", "u2"}

\* stores with one event of each of TopK or more participants, and some more
InitManyParticipants ==
    /\ \E n \in TopK..(TopK + 1) :
       \E before \in SeqsUpTo(ExtraItems, MaxExtra), after \in SeqsUpTo(ExtraItems, MaxExtra) :
            comments = before \o OneEventEach(n) \o after
    /\ twitch = Range(Participants) \ {"u3"}

InitRanking ==
    /\ now = THIRTY_DAYS_IN_MS
    /\ environ = [TWITCH_CLIENT_ID |-> "id", TWITCH_OAUTH_TOKEN |-> "token"]
    /\ users = {}
    /\ gu = Idle
    /\ gr = RankingIdle
    /\ connections = {}
    /\ bc = BroadcastIdle
    /\ ProcessorUnused
    /\ HandlersUnused
    /\ InitFewEvents \/ InitManyParticipants

NextRanking ==
    \/ GetRankingCall
    \/ GetRankingScan
    \/ GetRankingAggregate
    \/ GetRankingDone

SpecRanking == InitRanking /\ [][NextRanking]_vars

NextResolve ==
    \/ GetUsersCall
    \/ GetUsersDone
    \/ Tick
    \/ TtlSweep
    \/ TwitchChange

SpecResolve == InitResolve /\ [][NextResolve]_vars

\* after an invocation of get_users returned, time goes by, entries expire
\* and accounts come and go before the same ids are resolved again
Later ==
    /\ gu.pc = "returned"
    /\ now < THIRTY_DAYS_IN_MS + MaxTicks
    /\ now' = now + 1
    /\ UNCHANGED <<environ, users, twitch, gu, comments, gr, connections, bc,
                   rankings, rp, apig_management, wh, rt, rs>>

TtlSweepLater ==
    /\ gu.pc = "returned"
    /\ \E item \in users :
        /\ Expired(item, now)
        /\ users' = users \ {item}
    /\ UNCHANGED <<now, environ, twitch, gu, comments, gr, connections, bc,
                   rankings, rp, apig_management, wh, rt, rs>>

TwitchChangeLater ==
    /\ gu.pc = "returned"
    /\ \E user_id \in UserIds :
        twitch' = IF user_id \in twitch THEN twitch \ {user_id}
                  ELSE twitch \cup {user_id}
    /\ UNCHANGED <<now, environ, users, gu, comments, gr, connections, bc,
                   rankings, rp, apig_management, wh, rt, rs>>

\* get_users is called again with the ids of the invocation that returned
GetUsersAgain ==
    /\ gu.pc = "returned"
    /\ gu.user_ids # <<>>
    /\ \E answer \in Answers :
        LET r == get_users(gu.user_ids, users, twitch, environ, now, answer)
        IN  /\ gu' = [pc |-> IF r.raised = None THEN "returned" ELSE "raised"] @@ r
            /\ users' = r.table
    /\ UNCHANGED <<now, environ, twitch, comments, gr, connections, bc,
                   rankings, rp, apig_management, wh, rt, rs>>

NextAgain ==
    \/ GetUsersCall
    \/ GetUsersDone
    \/ Later
    \/ TtlSweepLater
    \/ TwitchChangeLater
    \/ GetUsersAgain

SpecAgain == InitResolve /\ [][NextAgain]_vars

\* the events of the stores the processor runs on: an old one and a new one
ProcessorItems ==
    {[chatter_user_id |-> "u1", reception_unixtime |-> 0],
     [chatter_user_id |-> "u2", reception_unixtime |-> THIRTY_DAYS_IN_MS]}

\* one execution environment serves any events, one after the other
InitProcessor ==
    /\ now = THIRTY_DAYS_IN_MS
    /\ environ = [TWITCH_CLIENT_ID |-> "id", TWITCH_OAUTH_TOKEN |-> "token"]
    /\ users = {}
    /\ twitch = {}
    /\ gu = Idle
    /\ comments \in SeqsUpTo(ProcessorItems, MaxStored)
    /\ gr = RankingIdle
    /\ connections = {}
    /\ bc = BroadcastIdle
    /\ ProcessorUnused
    /\ HandlersUnused

NextProcessor ==
    \/ ProcessorInvoke("p1", Events)
    \/ ProcessorScan("p1")
    \/ ProcessorAggregate("p1")
    \/ ProcessorPost("p1")
    \/ ProcessorDone("p1")

SpecProcessor == InitProcessor /\ [][NextProcessor]_vars

\* the events of the concurrent computations: direct invocations and
\* getRanking requests for the window that ends now
ConcurrentEvents ==
    {event \in Events :
        /\ event.end_unixtime = NoTime
        /\ \/ event.requestContext = NoContext
           \/ event.requestContext =
                [kind |-> "dict", connectionId |-> "c1", routeKey |-> "getRanking",
                 domainName |-> "d1", stage |-> "prod"]}

\* two execution environments run while chat events come in
InitConcurrent ==
    /\ now = THIRTY_DAYS_IN_MS
    /\ environ = [TWITCH_CLIENT_ID |-> "id", TWITCH_OAUTH_TOKEN |-> "token"]
    /\ users = {}
    /\ twitch = {}
    /\ gu = Idle
    /\ comments = <<>>
    /\ gr = RankingIdle
    /\ connections = {}
    /\ bc = BroadcastIdle
    /\ ProcessorUnused
    /\ HandlersUnused

NextConcurrent ==
    \/ SaveChannelChatMessage
    \/ \E p \in Procs :
        \/ ProcessorInvoke(p, ConcurrentEvents)
        \/ ProcessorScan(p)
        \/ ProcessorAggregate(p)
        \/ ProcessorPost(p)
        \/ ProcessorDone(p)

SpecConcurrent == InitConcurrent /\ [][NextConcurrent]_vars

\* direct invocations of the processor, with and without an end time
DirectEvents == {event \in Events : event.requestContext = NoContext}

\* the two leaderboard computations run on one store while time goes by
InitWindows ==
    /\ now = THIRTY_DAYS_IN_MS
    /\ environ = [TWITCH_CLIENT_ID |-> "id", TWITCH_OAUTH_TOKEN |-> "token"]
    /\ users = {}
    /\ twitch = {}
    /\ gu = Idle
    /\ comments \in SeqsUpTo(ProcessorItems, 1)
    /\ gr = RankingIdle
    /\ connections = {}
    /\ bc = BroadcastIdle
    /\ ProcessorUnused
    /\ HandlersUnused

NextWindows ==
    \/ Tick
    \/ GetRankingCall
    \/ GetRankingScan
    \/ GetRankingAggregate
    \/ GetRankingDone
    \/ ProcessorInvoke("p1", DirectEvents)
    \/ ProcessorScan("p1")
    \/ ProcessorAggregate("p1")
    \/ ProcessorPost("p1")
    \/ ProcessorDone("p1")

SpecWindows == InitWindows /\ [][NextWindows]_vars

\* requests arrive at the webhook, one after the other
InitWebhook ==
    /\ now = THIRTY_DAYS_IN_MS
    /\ environ = [TWITCH_CLIENT_ID |-> "id", TWITCH_OAUTH_TOKEN |-> "token"]
    /\ users = {}
    /\ twitch = {}
    /\ gu = Idle
    /\ comments = <<>>
    /\ gr = RankingIdle
    /\ connections = {}
    /\ bc = BroadcastIdle
    /\ ProcessorUnused
    /\ HandlersUnused

NextWebhook ==
    \/ WebhookInvoke
    \/ WebhookDone
    \/ Tick

SpecWebhook == InitWebhook /\ [][NextWebhook]_vars

\* the route events of the subscriber lifecycle: well-formed events of
\* every route for two connections, and one event without a context
LifecycleEvents ==
    {event \in RouterEvents :
        \/ event.requestContext = NoContext
        \/ /\ ~RouterKeyError(event)
           /\ event.requestContext.domainName = "d1"}

\* subscribers connect and disconnect while broadcasts run
InitLifecycle ==
    /\ now = THIRTY_DAYS_IN_MS
    /\ environ = [TWITCH_CLIENT_ID |-> "id", TWITCH_OAUTH_TOKEN |-> "token"]
    /\ users = {}
    /\ twitch = {}
    /\ gu = Idle
    /\ comments = <<>>
    /\ gr = RankingIdle
    /\ connections = {}
    /\ bc = BroadcastIdle
    /\ ProcessorUnused
    /\ HandlersUnused

NextLifecycle ==
    \/ RouterInvoke(LifecycleEvents)
    \/ RouterDone
    \/ BroadcastScan
    \/ BroadcastGetRanking
    \/ GetRankingScan
    \/ GetRankingAggregate
    \/ BroadcastPost
    \/ BroadcastDelete
    \/ BroadcastReturn
    \/ BroadcastDone

SpecLifecycle == InitLifecycle /\ [][NextLifecycle]_vars

\* one execution environment of the router serves getRanking requests
\* while time passes and chat events are stored
RankingRequests ==
    {event \in RouterEvents :
        /\ ~RouterKeyError(event)
        /\ event.requestContext.routeKey = "getRanking"
        /\ event.requestContext.connectionId = "c1"
        /\ event.requestContext.domainName = "d1"}

NextRequests ==
    \/ RouterInvoke(RankingRequests)
    \/ RouterDone
    \/ Tick
    \/ SaveChannelChatMessage

SpecRequests == InitLifecycle /\ [][NextRequests]_vars

\* broadcasts run while chat events are stored and accounts of the
\* directory come and go
InitFanout ==
    /\ now = THIRTY_DAYS_IN_MS
    /\ environ = [TWITCH_CLIENT_ID |-> "id", TWITCH_OAUTH_TOKEN |-> "token"]
    /\ users = {}
    /\ twitch = {"u1"}
    /\ gu = Idle
    /\ comments = <<>>
    /\ gr = RankingIdle
    /\ connections = {"c1", "c2"}
    /\ bc = BroadcastIdle
    /\ ProcessorUnused
    /\ HandlersUnused

NextFanout ==
    \/ BroadcastScan
    \/ BroadcastGetRanking
    \/ GetRankingScan
    \/ GetRankingAggregate
    \/ BroadcastPost
    \/ BroadcastDelete
    \/ BroadcastReturn
    \/ BroadcastDone
    \/ SaveChannelChatMessage
    \/ TwitchChange

SpecFanout == InitFanout /\ [][NextFanout]_vars

\* two invocations of get_users run in parallel on one cache while time
\* goes by and accounts come and go
InitRace ==
    /\ now = THIRTY_DAYS_IN_MS
    /\ environ = [TWITCH_CLIENT_ID |-> "id", TWITCH_OAUTH_TOKEN |-> "token"]
    /\ users \in {{}, LeftInCache}
    /\ twitch = {"u1"}
    /\ gu = Idle
    /\ comments = <<>>
    /\ gr = RankingIdle
    /\ connections = {}
    /\ bc = BroadcastIdle
    /\ ProcessorUnused
    /\ HandlersUnused

NextRace ==
    \/ \E r \in Resolvers : ResolveRead(r)
    \/ \E r \in Resolvers : ResolveRequest(r)
    \/ \E r \in Resolvers : ResolveWrite(r)
    \/ \E r \in Resolvers : ResolveDone(r)
    \/ Tick
    \/ TwitchChange

SpecRace == InitRace /\ [][NextRace]_vars

\* more ids than one batch write takes
ManyIds ==
    <<"u1", "u2", "u3", "u4", "u5", "u6", "u7", "u8", "u9", "u10", "u11", "u12",
      "u13", "u14", "u15", "u16", "u17", "u18", "u19", "u20", "u21", "u22",
      "u23", "u24", "u25", "u26">>

\* the sizes of the calls: few ids, as many as one batch write takes, more
ManySizes == {1, 2, 3, Len(ManyIds) - 2, Len(ManyIds) - 1, Len(ManyIds)}

\* a direct call of get_users on the first n of the many ids
GetUsersManyCall ==
    /\ gu.pc = "idle"
    /\ \E n \in ManySizes, answer \in Answers :
       \E r \in {get_users(SubSeq(ManyIds, 1, n), users, twitch, environ, now, answer)} :
            /\ gu' = [pc |-> IF r.raised = None THEN "returned" ELSE "raised"] @@ r
            /\ users' = r.table
    /\ UNCHANGED <<now, environ, twitch, comments, gr, connections, bc,
                   rankings, rp, apig_management, wh, rt, rs>>

InitManyIds ==
    /\ now = THIRTY_DAYS_IN_MS
    /\ environ = [TWITCH_CLIENT_ID |-> "id", TWITCH_OAUTH_TOKEN |-> "token"]
    /\ users = {}
    /\ twitch \in {{}, Range(ManyIds)}
    /\ gu = Idle
    /\ comments = <<>>
    /\ gr = RankingIdle
    /\ connections = {}
    /\ bc = BroadcastIdle
    /\ ProcessorUnused
    /\ HandlersUnused

NextManyIds ==
    \/ GetUsersManyCall
    \/ GetUsersDone

SpecManyIds == InitManyIds /\ [][NextManyIds]_vars

\* ------------------------------------------------------------- properties
\* the step in which get_users runs
GetUsersStep == gu.pc = "idle" /\ gu'.pc # "idle"

\* the ids named in the directory requests of the last call
RequestedFromTwitch == UNION {Range(gu.request[i]) : i \in 1..Len(gu.request)}

NotFoundRecord(item) ==
    "error_twitch_api" \in DOMAIN item /\ item.error_twitch_api = "f"

C9_ExpiredTreatedAsAbsent ==
    [][GetUsersStep =>
        \A item \in users :
            (/\ item.user_id \in Range(gu'.user_ids)
             /\ ~HasDuplicates(gu'.user_ids)
             /\ item.expireAt < now)
            => item.user_id \in Range(gu'.twitch_fetch_ids)]_vars

RankingEnded == gr.pc \in {"returned", "raised"}

\* the number of scanned messages of a participant, and its first position
MessagesOf(user_id) ==
    {k \in 1..Len(gr.all_messages) :
        /\ "chatter_user_id" \in DOMAIN gr.all_messages[k]
        /\ gr.all_messages[k].chatter_user_id = user_id}

FirstMessageOf(user_id) ==
    CHOOSE k \in MessagesOf(user_id) : \A m \in MessagesOf(user_id) : k <= m

\* participant a ranks before participant b: more messages, or as many and
\* seen first in the scan
RanksBefore(a, b) ==
    \/ Cardinality(MessagesOf(a)) > Cardinality(MessagesOf(b))
    \/ /\ Cardinality(MessagesOf(a)) = Cardinality(MessagesOf(b))
       /\ FirstMessageOf(a) < FirstMessageOf(b)

ScannedParticipants ==
    {gr.all_messages[k].chatter_user_id :
        k \in {m \in 1..Len(gr.all_messages) :
                    "chatter_user_id" \in DOMAIN gr.all_messages[m]}}

TopIds == {gr.top_chatters[i][1] : i \in 1..Len(gr.top_chatters)}

\* C4: the ranking holds exactly the top chatters that get_users resolved,
\* in the order of the top chatters and with their counts; an unresolved
\* chatter is dropped.
C4_OnlyResolvedInAggregatorOrder ==
    gr.pc = "returned" /\ gr.get_users # <<>> =>
        LET resolved == gr.get_users[1].found_users_map
            kept == SelectSeq(gr.top_chatters, LAMBDA c : c[1] \in DOMAIN resolved)
        IN  /\ Len(gr.ranking) = Len(kept)
            /\ \A i \in 1..Len(kept) :
                /\ gr.ranking[i].userId = kept[i][1]
                /\ gr.ranking[i].messageCount = kept[i][2]
                /\ gr.ranking[i].userLogin = resolved[kept[i][1]].login
                /\ gr.ranking[i].profileImageUrl
                        = resolved[kept[i][1]].profile_image_url

\* an unresolved chatter between two resolved ones is dropped from the ranking
C4_Witness ==
    /\ gr.pc = "returned"
    /\ Len(gr.ranking) >= 2
    /\ \E i, j, k \in 1..Len(gr.top_chatters) :
        /\ i < j /\ j < k
        /\ gr.top_chatters[j][1] \notin DOMAIN gr.user_data_map
        /\ \E m \in 1..(Len(gr.ranking) - 1) :
            /\ gr.ranking[m].userId = gr.top_chatters[i][1]
            /\ gr.ranking[m + 1].userId = gr.top_chatters[k][1]

\* C5: the aggregation gives at most TopK entries, each with the number of
\* scanned messages of its participant, ordered by falling count and, for
\* equal counts, by first appearance in the scan; every participant left
\* out ranks after every entry.
C5_TopKStableOrder ==
    RankingEnded =>
        /\ Len(gr.top_chatters) <= TopK
        /\ \A i \in 1..Len(gr.top_chatters) :
            /\ gr.top_chatters[i][1] \in ScannedParticipants
            /\ gr.top_chatters[i][2] = Cardinality(MessagesOf(gr.top_chatters[i][1]))
        /\ \A i, j \in 1..Len(gr.top_chatters) :
            i < j => RanksBefore(gr.top_chatters[i][1], gr.top_chatters[j][1])
        /\ \A user_id \in ScannedParticipants \ TopIds :
            /\ Len(gr.top_chatters) = TopK
            /\ \A i \in 1..TopK : RanksBefore(gr.top_chatters[i][1], user_id)

\* a full ranking that leaves out a participant with as many messages as
\* its last entry, and whose first entry has more messages than the second
C5_Witness ==
    /\ RankingEnded
    /\ Len(gr.top_chatters) = TopK
    /\ gr.top_chatters[1][2] > gr.top_chatters[2][2]
    /\ \E user_id \in ScannedParticipants \ TopIds :
        Cardinality(MessagesOf(user_id)) = gr.top_chatters[TopK][2]

\* the events of the store that lie in the range of the invocation
InRange == SelectSeq(comments, LAMBDA item :
                /\ gr.start_unixtime <= item.reception_unixtime
                /\ item.reception_unixtime <= gr.end_unixtime)

\* C6: the first scan call carries no start key, every later call carries
\* the key the previous page returned, no page is requested twice, the loop
\* goes on while pages return a key and ends with the first page without
\* one, and the counts are the numbers of matching events of the whole store.
C6_FollowsContinuationTokens ==
    /\ \A i \in 1..Len(gr.scan) :
        /\ gr.scan[i].params.ExclusiveStartKey =
                (IF i = 1 THEN NoKey ELSE gr.scan[i - 1].response.LastEvaluatedKey)
        /\ i < Len(gr.scan) => gr.scan[i].response.LastEvaluatedKey # NoKey
        /\ \A j \in 1..Len(gr.scan) :
                i # j => gr.scan[i].params.ExclusiveStartKey
                            # gr.scan[j].params.ExclusiveStartKey
    /\ gr.pc = "scan" /\ gr.scan # <<>> =>
            gr.scan[Len(gr.scan)].response.LastEvaluatedKey # NoKey
    /\ gr.pc \in {"aggregate", "returned", "raised"} =>
        /\ gr.scan # <<>>
        /\ gr.scan[Len(gr.scan)].response.LastEvaluatedKey = NoKey
        /\ gr.all_messages = InRange
    /\ RankingEnded =>
        \A i \in 1..Len(gr.top_chatters) :
            /\ gr.top_chatters[i][1] # None
            /\ gr.top_chatters[i][2] =
                Cardinality({k \in 1..Len(InRange) :
                    /\ "chatter_user_id" \in DOMAIN InRange[k]
                    /\ InRange[k].chatter_user_id = gr.top_chatters[i][1]})

\* a scan of three pages or more in which one participant was counted from
\* two different pages and a record without participant was scanned
C6_Witness ==
    /\ RankingEnded
    /\ Len(gr.scan) >= 3
    /\ \E k \in 1..Len(gr.all_messages) :
            "chatter_user_id" \notin DOMAIN gr.all_messages[k]
    /\ \E i, j \in 1..Len(gr.scan) :
        /\ i # j
        /\ \E a \in 1..Len(gr.scan[i].response.Items),
              b \in 1..Len(gr.scan[j].response.Items) :
            /\ "chatter_user_id" \in DOMAIN gr.scan[i].response.Items[a]
            /\ "chatter_user_id" \in DOMAIN gr.scan[j].response.Items[b]
            /\ gr.scan[i].response.Items[a].chatter_user_id
                    = gr.scan[j].response.Items[b].chatter_user_id

\* the connection ids of the delivery attempts of the run, in order
Attempted == [k \in 1..Len(bc.post_to_connection) |->
                bc.post_to_connection[k].ConnectionId]

GoneIds == {bc.post_to_connection[k].ConnectionId :
                k \in {m \in 1..Len(bc.post_to_connection) :
                        bc.post_to_connection[m].outcome = "GoneException"}}

\* C1: no subscriber gets two delivery attempts in a run and only listed
\* subscribers get one; a run ends with an error only after a failure that
\* is not Gone; a run that returned made one attempt for each listed
\* subscriber, in the order of the list, and every subscriber whose
\* delivery reported Gone is out of the registry.
C1_GoneDoesNotAbortFanOut ==
    /\ ~HasDuplicates(Attempted)
    /\ Range(Attempted) \subseteq Range(bc.connections)
    /\ bc.pc = "raised" =>
        /\ bc.raised # "GoneException"
        /\ \/ Attempted = SubSeq(bc.connections, 1, bc.i - 1)
           \/ bc.post_to_connection[Len(bc.post_to_connection)].outcome = "Exception"
    /\ bc.pc = "returned" =>
        /\ Attempted = bc.connections
        /\ bc.response.statusCode = 200
        /\ GoneIds = Range(bc.delete_item)
        /\ GoneIds \cap connections = {}

\* a run that returned after a Gone delivery was followed by another attempt
C1_Witness ==
    /\ bc.pc = "returned"
    /\ \E k \in 1..(Len(bc.post_to_connection) - 1) :
        /\ bc.post_to_connection[k].outcome = "GoneException"
        /\ bc.post_to_connection[k + 1].outcome = "ok"

\* the step in which a delivery fails with an error that is not Gone
PostFails ==
    /\ bc.pc = "get_ranking"
    /\ Len(bc'.post_to_connection) = Len(bc.post_to_connection) + 1
    /\ bc'.post_to_connection[Len(bc'.post_to_connection)].outcome = "Exception"

\* C7: a delivery that fails with an error other than Gone ends the run
\* with that error in the same step and leaves the registry as it is; in a
\* run ended so, the failed attempt is the last one, the subscribers listed
\* after it got no attempt, and the failed subscriber was not deleted and
\* is in the registry.
C7_OtherErrorPropagates ==
    /\ [][PostFails => bc'.pc = "raised" /\ bc'.raised = "Exception"
                        /\ connections' = connections]_vars
    /\ [](bc.pc = "raised" /\ bc.raised = "Exception" =>
            /\ Len(bc.post_to_connection) = bc.i
            /\ bc.post_to_connection[bc.i].ConnectionId = bc.connections[bc.i]
            /\ bc.post_to_connection[bc.i].outcome = "Exception"
            /\ \A k \in (bc.i + 1)..Len(bc.connections) :
                    bc.connections[k] \notin Range(Attempted)
            /\ bc.connections[bc.i] \notin Range(bc.delete_item)
            /\ bc.connections[bc.i] \in connections)

\* a run ended by a failed delivery with a listed subscriber left unattempted
C7_Witness ==
    /\ bc.pc = "raised"
    /\ bc.raised = "Exception"
    /\ bc.i < Len(bc.connections)
    /\ bc.connections[bc.i] \in connections

\* C8 (as claimed): a run that returned computed the ranking once and
\* scanned the registry once.
C8_RankingComputedOnce ==
    bc.pc = "returned" => bc.get_ranking = 1 /\ bc.scan = 1

\* C11 (as claimed): every call on a non-empty set of ids made while a
\* directory credential is absent fails with the configuration error,
\* returns no identity and sends no directory request.
C11_MissingCredentialsAbortAnyCall ==
    [][(/\ GetUsersStep
        /\ gu'.user_ids # <<>>
        /\ ~HasDuplicates(gu'.user_ids)
        /\ MissingCredentials(environ))
       => /\ gu'.pc = "raised"
          /\ gu'.raised = "ValueError"
          /\ gu'.found_users_map = <<>>
          /\ gu'.request = <<>>]_vars

\* C12: a call that fails leaves the cache as it was: a transport failure
\* of the directory request is raised to the caller and no cache write is
\* made, and the same holds for the failure on missing credentials.
C12_FailedResolveLeavesCacheUnchanged ==
    [][GetUsersStep =>
        /\ (gu'.request # <<>> /\ gu'.answer = "raise") =>
                /\ gu'.pc = "raised"
                /\ gu'.raised = "MaxRetryError"
                /\ gu'.batch_write_item = <<>>
                /\ users' = users
        /\ gu'.raised = "ValueError" =>
                /\ gu'.pc = "raised"
                /\ gu'.batch_write_item = <<>>
                /\ users' = users]_vars

\* a call that read a cached identity, asked the directory for another id
\* and met a transport failure
C12_Witness ==
    /\ gu.pc = "raised"
    /\ gu.raised = "MaxRetryError"
    /\ gu.request # <<>>
    /\ FoundInCache(gu.response) # <<>>
    /\ users # {}

\* C19: when no stored event lies in the window, get_ranking returns
\* normally with an empty ranking, has made at least one scan call, and has
\* not called get_users.
C19_EmptyWindowIsNotAnError ==
    (RankingEnded /\ InRange = <<>>) =>
        /\ gr.pc = "returned"
        /\ gr.raised = None
        /\ gr.ranking = <<>>
        /\ Len(gr.scan) >= 1
        /\ gr.get_users = <<>>

\* an invocation that scanned a store of several events page by page and
\* found none of them in its window
C19_Witness ==
    /\ gr.pc = "returned"
    /\ InRange = <<>>
    /\ comments # <<>>
    /\ Len(gr.scan) >= 2
    /\ gr.ranking = <<>>

\* ------------------------------------------- rankings_processor properties
\* the invocation in environment p came to its end
ProcReturned(p) == rp[p].pc = "returned"

\* the invocation in p tried to write a snapshot and the write raised
SnapshotWriteFailed(p) ==
    /\ rp[p].put_item # <<>>
    /\ rp[p].put_item[1].outcome = "raise"

\* the invocation in p serves a getRanking request
HasRequester(p) == rp[p].connection_id # None

\* the entries the invocation in p computed, as a message carries them
ComputedEntries(p) ==
    LET top == rp[p].put_item[1].Item.top_chatters
    IN  [i \in 1..Len(top) |->
            [userId |-> top[i].user_id, messageCount |-> top[i].message_count]]

\* C13 (as claimed): when the snapshot write fails the caller is told so
\* and a getRanking requester still receives the entries computed for the
\* window.
C13_EntriesReturnedDespiteWriteFailure ==
    \A p \in Procs :
        (ProcReturned(p) /\ SnapshotWriteFailed(p) /\ HasRequester(p)) =>
            /\ rp[p].response.statusCode = 500
            /\ \E i \in 1..Len(rp[p].post_to_connection) :
                LET data == rp[p].post_to_connection[i].Data.data
                IN  /\ "topChatters" \in DOMAIN data
                    /\ data.topChatters = ComputedEntries(p)

\* C13 (amended): when the snapshot write fails the caller is told so, and
\* the computed entries are not returned: the response holds the status 500
\* and the error text only, and no message to the requester carries a
\* topChatters list.
C13_EntriesDroppedOnWriteFailure ==
    \A p \in Procs :
        (ProcReturned(p) /\ SnapshotWriteFailed(p)) =>
            /\ rp[p].response = Response(500, ErrorWritingRankings)
            /\ \A i \in 1..Len(rp[p].post_to_connection) :
                "topChatters" \notin DOMAIN rp[p].post_to_connection[i].Data.data
            /\ HasRequester(p) => rp[p].post_to_connection # <<>>

\* a getRanking request that computed two entries, failed to store them and
\* answered its requester
C13_Witness ==
    /\ ProcReturned("p1")
    /\ SnapshotWriteFailed("p1")
    /\ HasRequester("p1")
    /\ Len(ComputedEntries("p1")) = 2
    /\ rp["p1"].post_to_connection # <<>>

\* C14: when the snapshot write fails, the handler returns status 500 and a
\* body that holds 'Error writing rankings'; a direct invocation sends no
\* message, and a getRanking request sends exactly one message, to its
\* requester, of type 'error', whose data.message holds that text.
C14_WriteFailureReported ==
    \A p \in Procs :
        (ProcReturned(p) /\ SnapshotWriteFailed(p)) =>
            /\ rp[p].response.statusCode = 500
            /\ rp[p].response.body = ErrorWritingRankings
            /\ ~HasRequester(p) => rp[p].post_to_connection = <<>>
            /\ HasRequester(p) =>
                /\ Len(rp[p].post_to_connection) = 1
                /\ rp[p].post_to_connection[1].ConnectionId = rp[p].connection_id
                /\ rp[p].post_to_connection[1].Data.type = "error"
                /\ rp[p].post_to_connection[1].Data.data.message = ErrorWritingRankings

\* a direct invocation whose snapshot write failed
C14_Witness ==
    /\ ProcReturned("p1")
    /\ SnapshotWriteFailed("p1")
    /\ rp["p1"].event.requestContext = NoContext
    /\ rp["p1"].response.statusCode = 500

\* the step in which the invocation in p calls put_item, and the call succeeds
SnapshotWritten(p) ==
    /\ rp[p].pc = "aggregate"
    /\ rp'[p].put_item # <<>>
    /\ rp'[p].put_item[1].outcome = "ok"

\* C15: a snapshot is stored under 'chatter_activity' and the end of its
\* window, one snapshot per key; a successful write puts the computed
\* snapshot in the store, and no step takes away or changes a stored
\* snapshot other than a write for the same window end, so every window end
\* written so far keeps a snapshot.
C15_EachWindowSnapshotRetained ==
    [][/\ \A p \in Procs :
            SnapshotWritten(p) =>
                LET item == rp'[p].put_item[1].Item
                IN  /\ item.ranking_type = "chatter_activity"
                    /\ item.window_end_unixtime = rp[p].end_unixtime
                    /\ item \in rankings'
       /\ \A stored \in rankings :
            \/ stored \in rankings'
            \/ \E p \in Procs :
                /\ SnapshotWritten(p)
                /\ rp[p].end_unixtime = stored.window_end_unixtime
                /\ \E item \in rankings' :
                    item.window_end_unixtime = stored.window_end_unixtime
       /\ \A a, b \in rankings' :
            (a.ranking_type = b.ranking_type
                /\ a.window_end_unixtime = b.window_end_unixtime) => a = b]_vars

\* the store holds the snapshots of two windows, which differ in their entries
C15_Witness ==
    \E a, b \in rankings :
        /\ a.window_end_unixtime # b.window_end_unixtime
        /\ a.top_chatters # b.top_chatters
        /\ a.top_chatters # <<>>
        /\ b.top_chatters # <<>>

\* the stored snapshots whose window ends at end_unixtime
StoredFor(table, end_unixtime) ==
    {stored \in table : RankingsKey(stored) = <<"chatter_activity", end_unixtime>>}

\* the number of events a snapshot counts
CountedIn(item) ==
    LET RECURSIVE sum(_)
        sum(i) == IF i = 0 THEN 0 ELSE item.top_chatters[i].message_count + sum(i - 1)
    IN  sum(Len(item.top_chatters))

\* C16: no computation waits for another one; whenever a computation writes
\* its snapshot, the store then holds for that window end exactly one
\* snapshot, and it is the whole snapshot of that write, whatever another
\* computation stored there before; no other step changes the store.
C16_LastWriteWinsWhole ==
    [][/\ \A p \in Procs :
            SnapshotWritten(p) =>
                StoredFor(rankings', rp[p].end_unixtime) = {rp'[p].put_item[1].Item}
       /\ (\A p \in Procs : ~SnapshotWritten(p)) => rankings' = rankings]_vars

\* two computations for one window end ran side by side and both wrote: the
\* one that scanned first wrote last, so the store holds its snapshot, which
\* counts fewer events than the snapshot it replaced
C16_Witness ==
    \E p, q \in Procs :
        /\ p # q
        /\ rp[p].pc \in {"post", "returned"} /\ rp[q].pc \in {"post", "returned"}
        /\ rp[p].put_item # <<>> /\ rp[p].put_item[1].outcome = "ok"
        /\ rp[q].put_item # <<>> /\ rp[q].put_item[1].outcome = "ok"
        /\ rp[p].end_unixtime = rp[q].end_unixtime
        /\ StoredFor(rankings, rp[p].end_unixtime) = {rp[p].put_item[1].Item}
        /\ CountedIn(rp[p].put_item[1].Item) < CountedIn(rp[q].put_item[1].Item)
        /\ Len(rp[q].put_item[1].Item.top_chatters) = 2

\* the request context of the event that the invocation in p serves
ContextOf(p) == rp[p].event.requestContext

\* the context is there and names a connection id and a route
WellFormed(p) ==
    /\ ContextOf(p).kind = "dict"
    /\ ContextOf(p).connectionId # None
    /\ ContextOf(p).routeKey # None

\* the context is there and lacks the connection id or the route name
LacksIdOrRoute(p) ==
    /\ ContextOf(p).kind \in {"dict", "empty"}
    /\ (ContextOf(p).connectionId = None \/ ContextOf(p).routeKey = None)

\* the context names the endpoint of the transport
HasEndpoint(p) == ContextOf(p).domainName # None /\ ContextOf(p).stage # None

\* what the claim says of a returned invocation in p with a well-formed
\* context: the status that belongs to its route
RouteStatus(p) ==
    /\ ContextOf(p).routeKey \in {"$connect", "$disconnect"} =>
            rp[p].response.statusCode = 200
    /\ ContextOf(p).routeKey = "getRanking" =>
            /\ rp[p].scan # <<>>
            /\ rp[p].response.statusCode = rp[p].status_code
            /\ rp[p].response.statusCode \in {200, 500}
    /\ ContextOf(p).routeKey \notin {"$connect", "$disconnect", "getRanking"} =>
            /\ rp[p].response.statusCode = 400
            /\ rp[p].scan = <<>>
            /\ rp[p].put_item = <<>>

\* C17 (as claimed): connect and disconnect return 200, getRanking returns
\* the status of the computation, any other route returns 400 with no scan
\* and no snapshot write, and a context without connection id or route name
\* returns 400.
C17_RouteDispatchForAnyContext ==
    \A p \in Procs :
        ProcReturned(p) =>
            /\ WellFormed(p) => RouteStatus(p)
            /\ LacksIdOrRoute(p) => rp[p].response.statusCode = 400

\* C17 (amended): for a context that names the endpoint (domain name and
\* stage), connect and disconnect return 200, getRanking returns the status
\* of the computation and any other route returns 400 with no scan and no
\* snapshot write; a non-empty context without connection id or route name
\* returns 400, with no scan and no snapshot write.
C17_RouteDispatch ==
    \A p \in Procs :
        ProcReturned(p) =>
            /\ (WellFormed(p) /\ HasEndpoint(p)) => RouteStatus(p)
            /\ (LacksIdOrRoute(p) /\ ContextOf(p).kind = "dict") =>
                    /\ rp[p].response = Response(400, BadRequest)
                    /\ rp[p].scan = <<>>
                    /\ rp[p].put_item = <<>>

\* an unknown route was rejected by an environment that had served no event
\* before
C17_Witness ==
    /\ ProcReturned("p1")
    /\ WellFormed("p1") /\ HasEndpoint("p1")
    /\ ContextOf("p1").routeKey = "unknownRoute"
    /\ rp["p1"].response.statusCode = 400
    /\ rankings = {}
    /\ comments # <<>>

\* the invocation in p serves a getRanking route event
GetRankingEvent(p) == WellFormed(p) /\ ContextOf(p).routeKey = "getRanking"

\* the messages of the invocation in p are one message, to its requester
OneMessageToRequester(p) ==
    /\ Len(rp[p].post_to_connection) = 1
    /\ rp[p].post_to_connection[1].ConnectionId = ContextOf(p).connectionId

\* C18 (as claimed): an invocation sends exactly one message, to the
\* requester, when its event is a getRanking route event; it sends no
\* message for a connect, disconnect or unknown route, for a malformed
\* context, or when it is invoked directly.
C18_OneMessagePerGetRankingEvent ==
    \A p \in Procs :
        ProcReturned(p) =>
            IF GetRankingEvent(p)
            THEN OneMessageToRequester(p)
            ELSE rp[p].post_to_connection = <<>>

\* C18 (amended): an invocation sends a message only for a getRanking route
\* event: exactly one, to the requester, when the event reaches the ranking
\* computation, and none when the event is answered 500 because the endpoint
\* of the transport is unknown; it sends no message for a connect,
\* disconnect or unknown route, for a malformed context, or when it is
\* invoked directly.
C18_MessageOnlyForGetRanking ==
    \A p \in Procs :
        /\ Len(rp[p].post_to_connection) <= 1
        /\ ProcReturned(p) =>
            IF GetRankingEvent(p) /\ rp[p].scan # <<>>
            THEN OneMessageToRequester(p)
            ELSE /\ rp[p].post_to_connection = <<>>
                 /\ GetRankingEvent(p) =>
                        rp[p].response = Response(500, EndpointMissing)

\* a getRanking request of the second requester, served by an environment
\* whose client was made for an earlier event, got its one message
C18_Witness ==
    /\ ProcReturned("p1")
    /\ GetRankingEvent("p1")
    /\ ContextOf("p1").connectionId = "c2"
    /\ ~HasEndpoint("p1")
    /\ OneMessageToRequester("p1")
    /\ rp["p1"].post_to_connection[1].outcome = "ok"

\* the scan loop of the invocation in p came to its end without an error
\* and found no event in the window
ScanFoundNothing(p) ==
    /\ rp[p].pc \in {"post", "returned"}
    /\ rp[p].scan # <<>>
    /\ rp[p].scan[Len(rp[p].scan)].outcome = "ok"
    /\ rp[p].all_messages = <<>>

\* C20: when the scan finds no event in the window, the invocation calls
\* put_item not at all, returns status 200 with the body 'No new messages
\* to process.', and a getRanking requester gets one message, of type
\* 'ranking', whose topChatters list is empty.
C20_EmptyWindowWritesNoSnapshot ==
    \A p \in Procs :
        ScanFoundNothing(p) =>
            /\ rp[p].put_item = <<>>
            /\ rp[p].status_code = 200
            /\ rp[p].body_message = NoNewMessages
            /\ ProcReturned(p) =>
                /\ rp[p].response = Response(200, NoNewMessages)
                /\ HasRequester(p) =>
                    /\ OneMessageToRequester(p)
                    /\ rp[p].post_to_connection[1].Data =
                            [type |-> "ranking", data |-> [topChatters |-> <<>>]]

\* a getRanking request for a window that ends before the one stored event
\* found nothing, wrote nothing and answered its requester
C20_Witness ==
    /\ ProcReturned("p1")
    /\ ScanFoundNothing("p1")
    /\ HasRequester("p1")
    /\ comments # <<>>
    /\ rankings = {}
    /\ rp["p1"].post_to_connection # <<>>

\* C30 (as claimed): for an input in which an id occurs more than once, each
\* distinct id occurs at most once in the keys of the cache batch read, in
\* the directory request and in the put requests of the cache batch write.
C30_InputDeduplicated ==
    [][GetUsersStep =>
        /\ \A i \in 1..Len(gu'.batch_get_item) : ~HasDuplicates(gu'.batch_get_item[i])
        /\ \A i \in 1..Len(gu'.request) : ~HasDuplicates(gu'.request[i])
        /\ \A i \in 1..Len(gu'.batch_write_item) :
                ~HasDuplicates([k \in 1..Len(gu'.batch_write_item[i]) |->
                    gu'.batch_write_item[i][k].PutRequest.Item.user_id])]_vars

\* C29 (as claimed): no call of get_users sends a cache batch read, a
\* directory request or a cache batch write that covers more ids than the
\* provider takes in one call.
C29_BatchesWithinCap ==
    [][GetUsersStep =>
        /\ \A i \in 1..Len(gu'.batch_get_item) :
                Len(gu'.batch_get_item[i]) <= BatchGetItemCap
        /\ \A i \in 1..Len(gu'.request) : Len(gu'.request[i]) <= TwitchIdsCap
        /\ \A i \in 1..Len(gu'.batch_write_item) :
                Len(gu'.batch_write_item[i]) <= BatchWriteItemCap]_vars

\* the end of the window of the running commons.get_ranking: the end time
\* it was given, or the time of its invocation
WindowEndOfRanking == IF gr.end_arg = NoTime THEN gr.time ELSE gr.end_arg

\* the end of the window of the invocation of the processor in p
WindowEndOfProcessor(p) ==
    IF rp[p].event.end_unixtime = NoTime THEN rp[p].time
    ELSE rp[p].event.end_unixtime

\* every scan call of the processor in p asks for the thirty days that end
\* at the end of its window
ProcessorScansItsWindow(p) ==
    \A i \in 1..Len(rp[p].scan) :
        /\ rp[p].scan[i].params.end_time = WindowEndOfProcessor(p)
        /\ rp[p].scan[i].params.start_time =
                WindowEndOfProcessor(p) - THIRTY_DAYS_IN_MS

\* C25: a computation that was given no start scans the range
\* from the end of its window minus thirty days to the end of its window,
\* in rankings_processor.get_ranking and in commons.get_ranking alike.
C25_WindowStartsThirtyDaysBeforeEnd ==
    /\ \A p \in Procs : ProcessorScansItsWindow(p)
    /\ gr.start_arg = NoTime =>
        \A i \in 1..Len(gr.scan) :
            /\ gr.scan[i].params.end_time = WindowEndOfRanking
            /\ gr.scan[i].params.start_time = WindowEndOfRanking - THIRTY_DAYS_IN_MS

\* the deliveries of the run that succeeded
Delivered == {k \in 1..Len(bc.post_to_connection) :
                bc.post_to_connection[k].outcome = "ok"}

\* C26 (as claimed): a run that returned returns the pair of the number of
\* successful deliveries and the number of subscribers removed after a Gone
\* delivery.
C26_ReturnsDeliveredAndPruned ==
    bc.pc = "returned" =>
        bc.response = [delivered |-> Cardinality(Delivered),
                       pruned |-> Len(bc.delete_item)]

\* C26 (amended): a run that returned returns the fixed response of status
\* 200 and body "Ranking sent to clients", which carries no counts; in such
\* a run the subscribers removed are exactly those whose delivery reported
\* Gone, each removed once, and the successful deliveries and the removals
\* add up to the number of subscribers listed.
C26_FixedResponseCountsAddUp ==
    bc.pc = "returned" =>
        /\ bc.response = [statusCode |-> 200, body |-> "Ranking sent to clients"]
        /\ Range(bc.delete_item) = GoneIds
        /\ ~HasDuplicates(bc.delete_item)
        /\ Cardinality(Delivered) + Len(bc.delete_item) = Len(bc.connections)

\* a run over three listed subscribers returned after two successful
\* deliveries and one removal
C26_Witness ==
    /\ bc.pc = "returned"
    /\ Len(bc.connections) = 3
    /\ Cardinality(Delivered) = 2
    /\ Len(bc.delete_item) = 1

\* C27: a run that returned attempted delivery to every subscriber that
\* was in the registry when the run listed it.
C27_EveryRegisteredSubscriberAttempted ==
    bc.pc = "returned" => bc.registry \subseteq Range(Attempted)

\* a step of the webhook handler: wh' is the invocation just made
WebhookStep == wh.pc = "idle" /\ wh'.pc # "idle"

\* a header or the body of the request is missing
PresenceFails(event) ==
    \/ \E key \in HeaderKeys : event.headers[key] = None
    \/ event.body = None

\* the request passed both checks
Verified(event) == ~PresenceFails(event) /\ is_valid_signature(event)

\* C21: a request that lacks a header or the body is answered 400, one
\* that has them but a wrong signature is answered 403, and neither changes
\* the event store nor attempts a write; a write is attempted only for a
\* verified notification whose subscription type is channel.chat.message,
\* and the store changes only by the item of that write being appended.
C21_StoreOnlyVerifiedChatMessages ==
    [][WebhookStep =>
        /\ PresenceFails(wh'.event) =>
            /\ wh'.pc = "returned" /\ wh'.response = [statusCode |-> 400]
            /\ wh'.put_item = <<>> /\ comments' = comments
        /\ (~PresenceFails(wh'.event) /\ ~is_valid_signature(wh'.event)) =>
            /\ wh'.pc = "returned" /\ wh'.response = [statusCode |-> 403]
            /\ wh'.put_item = <<>> /\ comments' = comments
        /\ wh'.put_item # <<>> =>
            /\ Verified(wh'.event)
            /\ wh'.event.headers[MESSAGE_TYPE_KEY] = "notification"
            /\ wh'.event.body \in ChatTexts
        /\ \/ comments' = comments
           \/ /\ wh'.put_item # <<>>
              /\ comments' = Append(comments, wh'.put_item[1].Item)]_vars

\* after a chat message was stored, a chat notification with a wrong
\* signature was answered 403 and not stored
C21_Witness ==
    /\ wh.pc = "returned"
    /\ wh.response = [statusCode |-> 403]
    /\ wh.event.headers[MESSAGE_TYPE_KEY] = "notification"
    /\ wh.event.body \in ChatTexts
    /\ Len(comments) = 1
    /\ comments[1].message_id = "m1"

\* the request is a chat notification that carries everything the stored
\* item is made of
CompleteChatMessage(event) ==
    /\ event.headers[MESSAGE_TYPE_KEY] = "notification"
    /\ event.body \in ChatTexts
    /\ event.requestContext.timeEpoch # NoTime

\* C22: a verified chat notification is answered 200 and nothing else,
\* whether its write succeeded or raised; the write is attempted once (and
\* never more than once for any request), and a write that raised leaves
\* the store as it was.
C22_StoreFailureAnswered200 ==
    [][WebhookStep =>
        /\ Len(wh'.put_item) <= 1
        /\ (Verified(wh'.event) /\ CompleteChatMessage(wh'.event)) =>
            /\ wh'.pc = "returned"
            /\ wh'.response = [statusCode |-> 200]
            /\ Len(wh'.put_item) = 1
            /\ wh'.put_item[1].outcome = "raise" => comments' = comments
            /\ wh'.put_item[1].outcome = "ok" =>
                    comments' = Append(comments, wh'.put_item[1].Item)]_vars

\* a verified chat notification whose write raised was answered 200
C22_Witness ==
    /\ wh.pc = "returned"
    /\ Verified(wh.event)
    /\ Len(wh.put_item) = 1
    /\ wh.put_item[1].outcome = "raise"
    /\ wh.response = [statusCode |-> 200]

\* C23: a verified request of type webhook_callback_verification is
\* answered 200 with the challenge as body when its body carries a
\* challenge and 400 "No challenge found" when it does not; neither writes
\* to the event store.
C23_ChallengeHandshake ==
    [][(/\ WebhookStep
        /\ Verified(wh'.event)
        /\ wh'.event.headers[MESSAGE_TYPE_KEY] = "webhook_callback_verification")
       => /\ wh'.put_item = <<>>
          /\ comments' = comments
          /\ wh'.pc = "returned"
          /\ IF wh'.event.body = ChallengeText
             THEN wh'.response = [statusCode |-> 200,
                                  headers |-> [content_type |-> "text/plain"],
                                  body |-> "ch1"]
             ELSE wh'.response = [statusCode |-> 400,
                                  body |-> "No challenge found"]]_vars

\* a step of the router: rt' is the invocation just made
RouterStep == rt.pc = "idle" /\ rt'.pc # "idle"

\* the invocation rt' served a well-formed event of this route and
\* returned 200
Served(route_key) ==
    /\ rt'.pc = "returned"
    /\ rt'.response = [statusCode |-> 200]
    /\ rt'.event.requestContext.kind = "dict"
    /\ rt'.event.requestContext.routeKey = route_key

\* the broadcast run is about to remove the subscriber whose delivery, its
\* last one, reported Gone
PrunesAfterGone ==
    /\ bc.pc = "delete"
    /\ bc.post_to_connection[Len(bc.post_to_connection)].outcome = "GoneException"
    /\ connections' =
        connections \ {bc.post_to_connection[Len(bc.post_to_connection)].ConnectionId}

\* C24: the registry, empty at first and holding each connection id at most
\* once, changes only in three ways: a served connect event adds its
\* connection id (a repeated one changes nothing), a served disconnect
\* event removes its connection id (a repeated one changes nothing), and a
\* broadcast run removes a subscriber whose delivery reported Gone; every
\* other step of the router and of a broadcast run leaves it as it is.
C24_SubscriberLifecycle ==
    [][/\ (RouterStep /\ Served("$connect")) =>
            connections' = connections \cup {rt'.event.requestContext.connectionId}
       /\ (RouterStep /\ Served("$disconnect")) =>
            connections' = connections \ {rt'.event.requestContext.connectionId}
       /\ (RouterStep /\ ~Served("$connect") /\ ~Served("$disconnect")) =>
            connections' = connections
       /\ (~RouterStep /\ connections' # connections) => PrunesAfterGone]_vars

\* during a broadcast run that pruned a subscriber, a connect event was
\* served for a connection that was registered already, next to another one
C24_Witness ==
    /\ rt.pc = "returned"
    /\ rt.event.requestContext.routeKey = "$connect"
    /\ rt.put_item # <<>>
    /\ bc.delete_item # <<>>
    /\ rt.event.requestContext.connectionId \in Range(bc.connections)
    /\ rt.event.requestContext.connectionId \notin Range(bc.delete_item)
    /\ Cardinality(connections) = 2

\* the cache entries of a participant
EntriesOf(user_id) == {item \in users : item.user_id = user_id}

C39_WebhookNeverRaises ==
    [][WebhookStep =>
        /\ wh'.pc = "returned"
        /\ wh'.response.statusCode \in {200, 400, 403}]_vars

\* the start and the end of the running call of commons.get_ranking: the
\* arguments it was given or, for an argument left out, its default
StartOfCall == IF gr.start_arg = NoTime THEN gr.start_unixtime ELSE gr.start_arg
EndOfCall == IF gr.end_arg = NoTime THEN gr.end_unixtime ELSE gr.end_arg

\* the positions of the store whose event is stamped within the closed range
CountedPositions ==
    {k \in 1..Len(comments) :
        /\ ~(comments[k].reception_unixtime < StartOfCall)
        /\ ~(comments[k].reception_unixtime > EndOfCall)}

\* C32: every scan call of a call of commons.get_ranking carries the start
\* and the end of the call as its bounds, and every page returns, of the
\* events the store evaluated for it, exactly those stamped from start to
\* end, both included; when the scan is over, the scanned messages are the
\* events of the store stamped from start to end, in the order of the store.
C32_ClosedRangeSameBoundsOnEveryPage ==
    /\ \A i \in 1..Len(gr.scan) :
        /\ gr.scan[i].params.start_time = StartOfCall
        /\ gr.scan[i].params.end_time = EndOfCall
        /\ \A k \in 1..Len(gr.scan[i].response.Items) :
            /\ StartOfCall <= gr.scan[i].response.Items[k].reception_unixtime
            /\ gr.scan[i].response.Items[k].reception_unixtime <= EndOfCall
    /\ gr.pc \in {"aggregate", "returned", "raised"} =>
        /\ Len(gr.all_messages) = Cardinality(CountedPositions)
        /\ \A n \in 1..Len(gr.all_messages) :
            \E k \in CountedPositions :
                /\ Cardinality({j \in CountedPositions : j <= k}) = n
                /\ gr.all_messages[n] = comments[k]

\* a scan of two pages or more, over a store with an event stamped exactly
\* at the start and one stamped exactly at the end, has counted both
C32_Witness ==
    /\ gr.pc = "returned"
    /\ Len(gr.scan) >= 2
    /\ StartOfCall < EndOfCall
    /\ \E a, b \in CountedPositions :
        /\ comments[a].reception_unixtime = StartOfCall
        /\ comments[b].reception_unixtime = EndOfCall
    /\ Len(gr.all_messages) >= 2

\* the subscribers whose delivery in the run bc' reported Gone
GoneInRun ==
    {bc'.post_to_connection[k].ConnectionId :
        k \in {m \in 1..Len(bc'.post_to_connection) :
                bc'.post_to_connection[m].outcome = "GoneException"}}

\* C36: no step of a broadcast run adds a subscriber to the registry, and a
\* step of a run removes only subscribers whose delivery in that run
\* reported Gone; so a subscriber whose delivery succeeded and a subscriber
\* that the run did not list stay in the registry through every step of
\* the run.
C36_RunRemovesOnlyGone ==
    [][bc' # bc =>
        /\ connections' \subseteq connections
        /\ connections \ connections' \subseteq GoneInRun
        /\ \A connection_id \in connections :
            (\/ connection_id \notin Range(bc'.connections)
             \/ \E k \in 1..Len(bc'.post_to_connection) :
                    /\ bc'.post_to_connection[k].ConnectionId = connection_id
                    /\ bc'.post_to_connection[k].outcome = "ok")
            => connection_id \in connections']_vars

\* the run removed a subscriber after a Gone delivery while a subscriber
\* that connected after the listing was taken is in the registry
C36_Witness ==
    /\ bc.pc = "returned"
    /\ bc.delete_item # <<>>
    /\ \E connection_id \in connections :
        /\ connection_id \notin bc.registry
        /\ connection_id \notin Range(bc.connections)

\* the ids the directory returned to the invocation gu'
ReturnedByDirectory ==
    {gu'.twitch_response_data[i].id : i \in 1..Len(gu'.twitch_response_data)}

\* get_users is called again, with the ids of the invocation that returned,
\* while no cache entry of these ids has expired
ResolvedAgainBeforeExpiry ==
    /\ gu.pc = "returned"
    /\ gu'.pc # "idle"
    /\ gu' # gu
    /\ \A item \in gu.table :
        item.user_id \in Range(gu.user_ids) => ~Expired(item, now)

ScanFailed(p) ==
    \E i \in 1..Len(rp[p].scan) : rp[p].scan[i].outcome = "raise"

\* the invocation in p was answered at once because the endpoint of the
\* transport is unknown
RoutingFailed(p) == WellFormed(p) /\ rp[p].response.body = EndpointMissing

\* the messages of the invocation in p are one message of type 'error', to
\* its requester
OneErrorMessageToRequester(p) ==
    /\ OneMessageToRequester(p)
    /\ rp[p].post_to_connection[1].Data.type = "error"
    /\ "message" \in DOMAIN rp[p].post_to_connection[1].Data.data

\* C31 (as claimed): every invocation returns a response of status 200, 400
\* or 500; when routing, scanning or the snapshot write fails the status is
\* 500, and a getRanking request then gets a message of type 'error'.
C31_FailureAnswered500WithErrorMessage ==
    \A p \in Procs :
        ProcReturned(p) =>
            /\ rp[p].response.statusCode \in {200, 400, 500}
            /\ (RoutingFailed(p) \/ ScanFailed(p) \/ SnapshotWriteFailed(p)) =>
                /\ rp[p].response.statusCode = 500
                /\ GetRankingEvent(p) => OneErrorMessageToRequester(p)

\* C31 (amended): every invocation returns a response of status 200, 400 or
\* 500, and 500 only after a failure; when a scan call or the snapshot
\* write fails the status is 500, a getRanking request gets one message of
\* type 'error' and a direct invocation none; when the endpoint of the
\* transport is unknown the status is 500 and no message is sent, to a
\* getRanking requester neither.
C31_FailureAnswered500 ==
    \A p \in Procs :
        /\ rp[p].pc \in {"idle", "scan", "aggregate", "post", "returned"}
        /\ ProcReturned(p) =>
            /\ rp[p].response.statusCode \in {200, 400, 500}
            /\ rp[p].response.statusCode = 500 =>
                    (RoutingFailed(p) \/ ScanFailed(p) \/ SnapshotWriteFailed(p))
            /\ (ScanFailed(p) \/ SnapshotWriteFailed(p)) =>
                /\ rp[p].response.statusCode = 500
                /\ GetRankingEvent(p) => OneErrorMessageToRequester(p)
                /\ ~HasRequester(p) => rp[p].post_to_connection = <<>>
            /\ RoutingFailed(p) =>
                /\ rp[p].response.statusCode = 500
                /\ rp[p].post_to_connection = <<>>
                /\ rp[p].scan = <<>>

\* a getRanking request whose second scan call raised was answered 500 and
\* its requester got the error message
C31_Witness ==
    /\ ProcReturned("p1")
    /\ GetRankingEvent("p1")
    /\ Len(rp["p1"].scan) = 2
    /\ rp["p1"].scan[2].outcome = "raise"
    /\ rp["p1"].response.statusCode = 500
    /\ OneErrorMessageToRequester("p1")

\* the step in which the invocation in p calls put_item
SnapshotWriteStep(p) ==
    rp[p].pc = "aggregate" /\ rp'[p].put_item # <<>>

\* the step in which the invocation in p has its message sent, if it has
\* one to send, and returns
DeliveryStep(p) == rp[p].pc = "post" /\ rp'[p].pc = "returned"

\* C33: the snapshot write is made while no message was sent yet, and the
\* message, if one is sent, after it; the step that sends the message, fail
\* it or not, writes nothing to the snapshot store, leaves a snapshot this
\* invocation wrote where it is, and returns the status code and the body
\* that were settled before the message was sent.
C33_WriteBeforeDeliveryFailureIgnored ==
    [][\A p \in Procs :
        /\ SnapshotWriteStep(p) =>
            /\ rp[p].post_to_connection = <<>>
            /\ rp'[p].post_to_connection = <<>>
            /\ rp'[p].pc = "post"
        /\ Len(rp'[p].post_to_connection) > Len(rp[p].post_to_connection) => DeliveryStep(p)
        /\ DeliveryStep(p) =>
            /\ rankings' = rankings
            /\ rp'[p].put_item = rp[p].put_item
            /\ rp'[p].response = Response(rp[p].status_code, rp[p].body_message)
            /\ (rp[p].put_item # <<>> /\ rp[p].put_item[1].outcome = "ok") =>
                /\ rp[p].put_item[1].Item \in rankings'
                /\ rp'[p].response = Response(200, ProcessedSuccessfully)]_vars

\* a getRanking request wrote its snapshot, failed to reach its requester
\* and returned 200
C33_Witness ==
    /\ ProcReturned("p1")
    /\ rp["p1"].put_item # <<>>
    /\ rp["p1"].put_item[1].outcome = "ok"
    /\ rp["p1"].put_item[1].Item \in rankings
    /\ Len(rp["p1"].post_to_connection) = 1
    /\ rp["p1"].post_to_connection[1].outcome = "raise"
    /\ rp["p1"].response = Response(200, ProcessedSuccessfully)


\* C38: the response to a WebSocket event and the endpoint used to reach the
\* requester depend on the event alone, not on what the process served
\* before: a well-formed event that lacks domainName or stage is answered
\* 500 "endpoint details missing" and no message is sent for it, and every
\* message is sent through the endpoint made of the domainName and the
\* stage of the event being served.
C38_ResponseAndEndpointFromCurrentEvent ==
    \A p \in Procs : ProcReturned(p) /\ WellFormed(p) =>
        /\ ~HasEndpoint(p) =>
            /\ rp[p].response = Response(500, EndpointMissing)
            /\ rp[p].post_to_connection = <<>>
        /\ \A i \in 1..Len(rp[p].post_to_connection) :
            /\ HasEndpoint(p)
            /\ rp[p].post_to_connection[i].endpoint_url =
                    Endpoint(ContextOf(p).domainName, ContextOf(p).stage)


\* the invocation rt' of the router sent a reply to its requester
RepliedWithRanking ==
    /\ rt'.pc = "returned"
    /\ Len(rt'.post_to_connection) = 1

\* C34: a getRanking request served by the router scans the window of 30
\* days that ends at the time of the request, and its reply is the ranking
\* of the events stored in that window, so that an event stored before the
\* request and less than 30 days old is counted, whatever the process
\* served before and whenever its modules were loaded.
C34_RouterWindowEndsAtRequest ==
    [][RouterStep /\ RepliedWithRanking =>
        /\ \A i \in 1..Len(rt'.scan) :
            /\ rt'.scan[i].start_time = now - THIRTY_DAYS_IN_MS
            /\ rt'.scan[i].end_time = now
        /\ rt'.post_to_connection[1].Data.data =
                RouterRanking(comments, now - THIRTY_DAYS_IN_MS, now)
        /\ \A i \in 1..Len(comments) :
            comments[i].reception_unixtime > now - THIRTY_DAYS_IN_MS =>
                \E j \in 1..Len(rt'.post_to_connection[1].Data.data) :
                    rt'.post_to_connection[1].Data.data[j].user_id =
                        comments[i].chatter_user_id]_vars


\* C35: in one run of the broadcaster all the subscribers that received a
\* delivery received the same payload, whatever was stored or changed in
\* the directory while the run went through the registry.
C35_SamePayloadForAllSubscribers ==
    \A i, j \in 1..Len(bc.post_to_connection) :
        (/\ bc.post_to_connection[i].outcome = "ok"
         /\ bc.post_to_connection[j].outcome = "ok")
        => bc.post_to_connection[i].Data = bc.post_to_connection[j].Data

====
